---- MODULE Spec2Model ----
(***************************************************************************)
(* A model of hydpy.cythons.modelutils: the Cythonizer build pipeline      *)
(* (staleness detection, translation, compilation, artifact relocation)    *)
(* and the PyxWriter code generator that emits the Cython source unit.     *)
(*                                                                         *)
(* Emitted lines are kept as records [ind, fmt, args]: the indentation     *)
(* level, the Python format string of the source and the arguments the     *)
(* source applies to it.  Every argument is a sequence of string tokens.   *)
(***************************************************************************)
EXTENDS Integers, Sequences, FiniteSets, TLC

(***************************************************************************)
(* Bounds of the model.                                                    *)
(***************************************************************************)
\* largest number of fields of one parameter or sequence group
MaxFields == 2
\* largest number of complete() invocations of one caller
MaxCalls == 2
\* largest modification time of a file in the initial file system
InitTime == 1
\* largest number of later modifications of the source files
MaxTouch == 1

\* length of the first axis of the arrays of an instance
MaxAxis == 2

\* number of simulation steps the files and buffers of an instance hold
MaxSteps == 2

\* addresses PyMem_Malloc can hand out
MaxBlocks == 2

\* greatest length a link sequence is allocated with
MaxLength == 3

\* number of methods of the numerical solver
MaxMethod == 2

\* greatest number of characters of the texts whose line breaks are removed
MaxChars == 4

\* greatest level of indentation of the lines of a user routine
MaxLevel == 2

\* greatest number of statements of the body of a user routine
MaxStatements == 2
MaxValue == 2
MaxApply == 2
MaxRows == 2

VARIABLES
    model,        \* the model descriptor read by PyxWriter
    fastcython,   \* pub.options.fastcython
    nogilAtImport,\* value of pub.options.fastcython when _nogil was bound
    usecython,    \* pub.options.usecython
    skipdoctests, \* pub.options.skipdoctests
    argv,         \* sys.argv
    clock,        \* file system time
    pyTime,       \* st_mtime of every file of Cythonizer.pysourcefiles
    pyx,          \* the file under Cythonizer.cyfilepath (cyname + '.pyx')
    dll,          \* the file cydirpath/cyname+dllextension
    build,        \* the directory tree under Cythonizer.buildpath
    pc,           \* position of every caller inside complete()/doit()
    log,          \* steps the current invocation of every caller has run
    exc,          \* exception the current invocation ended with
    calls,        \* number of invocations every caller has started
    last,         \* how the previous invocation ended, per caller
    touched,      \* number of source modifications since Init
    lock,         \* holder of the callers' single-writer lock (0: free)
    locking,      \* whether the callers serialize complete() with the lock
    written,      \* the completed generation passes: their number, the
                  \* lines of the first, whether all gave the same lines
    out,          \* result of the emitter applied last (generator runs)
    mem,          \* fields of an instance of the generated classes (runs of
                  \* emitted routines)
    routine       \* the user routine handed to FuncConverter

vars == <<model, fastcython, nogilAtImport, usecython, skipdoctests, argv,
          clock, pyTime, pyx, dll, build, pc, log, exc, calls, last,
          touched, lock, locking, written, out, mem, routine>>

(***************************************************************************)
(* Lines                                                                   *)
(***************************************************************************)
RECURSIVE Flatten(_)
Flatten(ss) == IF ss = <<>> THEN <<>> ELSE Head(ss) \o Flatten(Tail(ss))

\* Lines.add(indent, line) for one text line
Line(indent, fmt, args) == [ind |-> indent, fmt |-> fmt, args |-> args]

\* the value of a failed dictionary subscription
KeyError == <<"KeyError">>

\* str(idx) for the loop counters the generator formats with %d
Digit(i) == <<"0", "1", "2", "3", "4", "5">>[i + 1]

\* the value of a line the generator raises at instead of yielding it
NotImplementedError == <<"NotImplementedError">>

\* the value of a line whose format gets more arguments than it has places
TypeError == <<"TypeError">>

\* the lines at which evaluating or yielding an emitted line raised
Raising(lines) ==
    {i \in DOMAIN lines : \E j \in DOMAIN lines[i].args :
        lines[i].args[j] \in {KeyError, NotImplementedError, TypeError}}

Raises(lines) == Raising(lines) # {}

\* what a property of PyxWriter gives back: its lines, or the exception
Result(lines) ==
    IF Raises(lines)
    THEN LET first == CHOOSE i \in Raising(lines) :
                          \A k \in Raising(lines) : i <= k
             arg == CHOOSE j \in DOMAIN lines[first].args :
                        lines[first].args[j]
                            \in {KeyError, NotImplementedError, TypeError}
         IN  [exc |-> lines[first].args[arg][1], lines |-> <<>>]
    ELSE [exc |-> "none", lines |-> lines]

(***************************************************************************)
(* Type tables                                                             *)
(***************************************************************************)
TYPE2STR == [bool |-> "bint", int |-> "numpy.int64_t", float |-> "double",
             str |-> "str"]

\* one ":" token per axis of the memory view
NDIM2STR == [n \in 0..3 |-> [k \in 1..n |-> ":"]]

\* TYPE2STR[...] + NDIM2STR[ndim]
CType(base, ndim) ==
    IF ndim \in DOMAIN NDIM2STR THEN <<base>> \o NDIM2STR[ndim] ELSE KeyError

\* number of axes of a declared type
Rank(ctype) == Cardinality({k \in DOMAIN ctype : ctype[k] = ":"})

(***************************************************************************)
(* Classes of the sequence groups (isinstance tests of PyxWriter)          *)
(***************************************************************************)
IsLinkSequences(subseqs) ==
    subseqs.name \in {"inlets", "outlets", "receivers", "senders"}

IsIOSubSequences(subseqs) == subseqs.name \in {"inputs", "fluxes", "states"}

IsInputSequences(subseqs) == subseqs.name = "inputs"

IsFluxSequences(subseqs) == subseqs.name = "fluxes"

\* isinstance(subseqs, sequencetools.InputSequence): the class of a single
\* input sequence, which no group of sequences is an instance of
IsInputSequence(subseqs) == FALSE

\* objecttools.classname(subpars) / objecttools.classname(subseqs)
classname(group) == group.cls

\* getattr(self.model.sequences, name, None) is not None
HasSeqs(m, name) == \E i \in DOMAIN m.sequences : m.sequences[i].name = name

\* hasattr(self.model, name)
hasattr(m, name) == name \in m.attrs

(***************************************************************************)
(* Header helpers                                                          *)
(***************************************************************************)
\* the module attribute _nogil, bound once when the module is imported
nogilSuffix(atImport) == IF atImport THEN <<" nogil">> ELSE <<"">>

\* method_header(method_name, nogil)
method_header(method_name, nogil, fast) ==
    LET ng == IF ~fast THEN FALSE ELSE nogil
    IN  Line(0, "cpdef inline void %s(self)%s",
             <<<<method_name>>, IF ng THEN <<" nogil:">> ELSE <<":">>>>)

\* lines.add(indent, line) applied to an already built line
Add(indent, line) == [line EXCEPT !.ind = indent + line.ind]

(***************************************************************************)
(* PyxWriter.cythonoptions, cimports, constants                            *)
(***************************************************************************)
cythonoptions(fast) ==
    LET flag == IF fast THEN <<"False">> ELSE <<"True">>
    IN  << Line(0, "#!python", <<>>),
           Line(0, "#cython: boundscheck=%s", <<flag>>),
           Line(0, "#cython: wraparound=%s", <<flag>>),
           Line(0, "#cython: initializedcheck=%s", <<flag>>) >>

cimports ==
    [i \in 1..13 |->
        Line(0, <<"import numpy", "cimport numpy",
                  "from libc.math cimport exp, fabs, log",
                  "from libc.stdio cimport *", "from libc.stdlib cimport *",
                  "import cython", "from cpython.mem cimport PyMem_Malloc",
                  "from cpython.mem cimport PyMem_Realloc",
                  "from cpython.mem cimport PyMem_Free",
                  "from hydpy.cythons.autogen cimport pointerutils",
                  "from hydpy.cythons.autogen cimport configutils",
                  "from hydpy.cythons.autogen cimport smoothutils",
                  "from hydpy.cythons.autogen cimport annutils">>[i], <<>>)]

\* the upper-case members of the cythonizer whose type TYPE2STR knows
constants(m) ==
    [i \in DOMAIN m.constants |->
        Line(0, "cdef public %s %s = %s",
             <<CType(TYPE2STR[m.constants[i].TYPE], m.constants[i].NDIM),
               <<m.constants[i].name>>, <<m.constants[i].value>>>>)]

(***************************************************************************)
(* PyxWriter.parameters                                                    *)
(***************************************************************************)
ParameterLines(par) ==
    <<Line(1, "cdef public %s %s",
           <<CType(TYPE2STR[par.TYPE], par.NDIM), <<par.name>>>>)>>

SubparsLines(subpars) ==
    << Line(0, "@cython.final", <<>>),
       Line(0, "cdef class %s(object):", <<<<classname(subpars)>>>>) >>
    \o Flatten([i \in DOMAIN subpars.fields |->
                   ParameterLines(subpars.fields[i])])

parameters(m) ==
    Flatten([i \in DOMAIN m.parameters |-> SubparsLines(m.parameters[i])])

(***************************************************************************)
(* PyxWriter.iosequence, openfiles, closefiles, loaddata, savedata         *)
(***************************************************************************)
iosequence(seq) ==
    << Line(1, "cdef public bint _%s_diskflag", <<<<seq.name>>>>),
       Line(1, "cdef public str _%s_path", <<<<seq.name>>>>),
       Line(1, "cdef FILE *_%s_file", <<<<seq.name>>>>),
       Line(1, "cdef public bint _%s_ramflag", <<<<seq.name>>>>),
       Line(1, "cdef public %s _%s_array",
            <<CType("double", seq.NDIM + 1), <<seq.name>>>>) >>

\* variant: the offset counts one element per step for every field
OpenLines_element_stride(seq) ==
    << Line(2, "if self._%s_diskflag:", <<<<seq.name>>>>),
       Line(3, "self._%s_file = fopen(str(self._%s_path).encode(), \"rb+\")",
            <<<<seq.name>>, <<seq.name>>>>),
       Line(3, "fseek(self._%s_file, idx*8, SEEK_SET)", <<<<seq.name>>>>) >>

OpenLines(seq) ==
    << Line(2, "if self._%s_diskflag:", <<<<seq.name>>>>),
       Line(3, "self._%s_file = fopen(str(self._%s_path).encode(), \"rb+\")",
            <<<<seq.name>>, <<seq.name>>>>),
       IF seq.NDIM = 0
       THEN Line(3, "fseek(self._%s_file, idx*8, SEEK_SET)", <<<<seq.name>>>>)
       ELSE Line(3, "fseek(self._%s_file, idx*self._%s_length*8, SEEK_SET)",
                 <<<<seq.name>>, <<seq.name>>>>) >>

openfiles(subseqs) ==
    <<Line(1, "cpdef openfiles(self, int idx):", <<>>)>>
    \o Flatten([i \in DOMAIN subseqs.fields |-> OpenLines(subseqs.fields[i])])

\* the field names the descriptors use, in alphabetical order
Alphabet == <<"a", "b", "c", "d", "e", "f", "g", "h", "i", "j", "k", "l",
              "n", "o", "p", "q", "r", "s", "t", "u", "w">>

\* position of a field name in the order of Python's string comparison
NameOrder(name) == CHOOSE i \in DOMAIN Alphabet : Alphabet[i] = name

\* sorted(subseqs): the (name, sequence) pairs in the order of their names
RECURSIVE SortedFields(_)
SortedFields(fields) ==
    IF fields = <<>> THEN <<>>
    ELSE LET least == CHOOSE i \in DOMAIN fields :
                          \A j \in DOMAIN fields :
                              NameOrder(fields[i].name)
                                  <= NameOrder(fields[j].name)
         IN  <<fields[least]>>
             \o SortedFields([k \in 1..(Len(fields) - 1) |->
                                 IF k < least THEN fields[k]
                                 ELSE fields[k + 1]])

closefiles(subseqs) ==
    <<Line(1, "cpdef inline closefiles(self):", <<>>)>>
    \o Flatten([i \in DOMAIN subseqs.fields |->
        LET seq == SortedFields(subseqs.fields)[i]
        IN  << Line(2, "if self._%s_diskflag:", <<<<seq.name>>>>),
               Line(3, "fclose(self._%s_file)", <<<<seq.name>>>>) >>])

\* 'jdx0,jdx1,...' without the trailing comma
Indexing(ndim) ==
    [k \in 1..ndim |-> <<"jdx0", "jdx1", "jdx2", "jdx3", "jdx4", "jdx5">>[k]]

\* for jdx<k> in range(self._<name>_length_<k>): one line per axis
AxisLoops(seq) ==
    [k \in 1..seq.NDIM |->
        Line(3 + (k - 1), "for jdx%d in range(self._%s_length_%d):",
             <<<<Digit(k - 1)>>, <<seq.name>>, <<Digit(k - 1)>>>>)]

\* variant: the disk branch reads one element whatever the field's shape
LoadLines_one_element(seq) ==
    << Line(2, "if self._%s_diskflag:", <<<<seq.name>>>>),
       Line(3, "fread(&self.%s, 8, 1, self._%s_file)",
            <<<<seq.name>>, <<seq.name>>>>),
       Line(2, "elif self._%s_ramflag:", <<<<seq.name>>>>) >>
    \o (IF seq.NDIM = 0
        THEN <<Line(3, "self.%s = self._%s_array[idx]",
                    <<<<seq.name>>, <<seq.name>>>>)>>
        ELSE AxisLoops(seq)
             \o <<Line(3 + seq.NDIM, "self.%s[%s] = self._%s_array[idx,%s]",
                       <<<<seq.name>>, Indexing(seq.NDIM),
                         <<seq.name>>, Indexing(seq.NDIM)>>)>>)

LoadLines(seq) ==
    << Line(2, "if self._%s_diskflag:", <<<<seq.name>>>>),
       IF seq.NDIM = 0
       THEN Line(3, "fread(&self.%s, 8, 1, self._%s_file)",
                 <<<<seq.name>>, <<seq.name>>>>)
       ELSE Line(3, "fread(&self.%s[0], 8, self._%s_length, self._%s_file)",
                 <<<<seq.name>>, <<seq.name>>, <<seq.name>>>>),
       Line(2, "elif self._%s_ramflag:", <<<<seq.name>>>>) >>
    \o (IF seq.NDIM = 0
        THEN <<Line(3, "self.%s = self._%s_array[idx]",
                    <<<<seq.name>>, <<seq.name>>>>)>>
        ELSE AxisLoops(seq)
             \o <<Line(3 + seq.NDIM, "self.%s[%s] = self._%s_array[idx,%s]",
                       <<<<seq.name>>, Indexing(seq.NDIM),
                         <<seq.name>>, Indexing(seq.NDIM)>>)>>)

loaddata(subseqs, atImport) ==
    << Line(1, "cpdef inline void loaddata(self, int idx) %s:",
            <<nogilSuffix(atImport)>>),
       Line(2, "cdef int jdx0, jdx1, jdx2, jdx3, jdx4, jdx5", <<>>) >>
    \o Flatten([i \in DOMAIN subseqs.fields |-> LoadLines(subseqs.fields[i])])

SaveLines(seq) ==
    << Line(2, "if self._%s_diskflag:", <<<<seq.name>>>>),
       IF seq.NDIM = 0
       THEN Line(3, "fwrite(&self.%s, 8, 1, self._%s_file)",
                 <<<<seq.name>>, <<seq.name>>>>)
       ELSE Line(3, "fwrite(&self.%s[0], 8, self._%s_length, self._%s_file)",
                 <<<<seq.name>>, <<seq.name>>, <<seq.name>>>>),
       Line(2, "elif self._%s_ramflag:", <<<<seq.name>>>>) >>
    \o (IF seq.NDIM = 0
        THEN <<Line(3, "self._%s_array[idx] = self.%s",
                    <<<<seq.name>>, <<seq.name>>>>)>>
        ELSE AxisLoops(seq)
             \o <<Line(3 + seq.NDIM, "self._%s_array[idx,%s] = self.%s[%s]",
                       <<<<seq.name>>, Indexing(seq.NDIM),
                         <<seq.name>>, Indexing(seq.NDIM)>>)>>)

savedata(subseqs, atImport) ==
    << Line(1, "cpdef inline void savedata(self, int idx) %s:",
            <<nogilSuffix(atImport)>>),
       Line(2, "cdef int jdx0, jdx1, jdx2, jdx3, jdx4, jdx5", <<>>) >>
    \o Flatten([i \in DOMAIN subseqs.fields |-> SaveLines(subseqs.fields[i])])

(***************************************************************************)
(* PyxWriter.setpointer, setpointer0d, alloc, dealloc, setpointer1d        *)
(***************************************************************************)
setpointer0d(subseqs) ==
    <<Line(1, "cpdef inline setpointer0d(self, str name, pointerutils.PDouble value):",
           <<>>)>>
    \o Flatten([i \in DOMAIN subseqs.fields |->
        << Line(2, "if name == \"%s\":", <<<<subseqs.fields[i].name>>>>),
           Line(3, "self.%s = value.p_value",
                <<<<subseqs.fields[i].name>>>>) >>])

alloc(subseqs) ==
    <<Line(1, "cpdef inline alloc(self, name, int length):", <<>>)>>
    \o Flatten([i \in DOMAIN subseqs.fields |->
        << Line(2, "if name == \"%s\":", <<<<subseqs.fields[i].name>>>>),
           Line(3, "self._%s_length_0 = length",
                <<<<subseqs.fields[i].name>>>>),
           Line(3, "self.%s = <double**> PyMem_Malloc(length * sizeof(double*))",
                <<<<subseqs.fields[i].name>>>>) >>])

dealloc(subseqs) ==
    <<Line(1, "cpdef inline dealloc(self):", <<>>)>>
    \o [i \in DOMAIN subseqs.fields |->
           Line(2, "PyMem_Free(self.%s)", <<<<subseqs.fields[i].name>>>>)]

setpointer1d(subseqs) ==
    <<Line(1, "cpdef inline setpointer1d(self, str name, pointerutils.PDouble value, int idx):",
           <<>>)>>
    \o Flatten([i \in DOMAIN subseqs.fields |->
        << Line(2, "if name == \"%s\":", <<<<subseqs.fields[i].name>>>>),
           Line(3, "self.%s[idx] = value.p_value",
                <<<<subseqs.fields[i].name>>>>) >>])

\* both loops leave after their first pass: only the first field decides
setpointer(subseqs) ==
    (IF subseqs.fields # <<>> /\ subseqs.fields[1].NDIM = 0
     THEN setpointer0d(subseqs) ELSE <<>>)
    \o (IF subseqs.fields # <<>> /\ subseqs.fields[1].NDIM = 1
        THEN alloc(subseqs) \o dealloc(subseqs) \o setpointer1d(subseqs)
        ELSE <<>>)

(***************************************************************************)
(* PyxWriter.sequences                                                     *)
(***************************************************************************)
\* the declarations of one sequence (the body of the inner loop)
SequenceLines(subseqs, seq) ==
    (IF IsLinkSequences(subseqs)
     THEN IF seq.NDIM = 0
          THEN <<Line(1, "cdef double *%s", <<<<seq.name>>>>)>>
          ELSE IF seq.NDIM = 1
          THEN << Line(1, "cdef double **%s", <<<<seq.name>>>>),
                  Line(1, "cdef public int len_%s", <<<<seq.name>>>>) >>
          ELSE <<>>
     ELSE <<Line(1, "cdef public %s %s",
                 <<CType("double", seq.NDIM), <<seq.name>>>>)>>)
    \o << Line(1, "cdef public int _%s_ndim", <<<<seq.name>>>>),
          Line(1, "cdef public int _%s_length", <<<<seq.name>>>>) >>
    \o [k \in 1..seq.NDIM |->
           Line(1, "cdef public int _%s_length_%d",
                <<<<seq.name>>, <<Digit(k - 1)>>>>)]
    \o (IF seq.NUMERIC
        THEN << Line(1, "cdef public %s _%s_points",
                     <<CType("double", seq.NDIM + 1), <<seq.name>>>>),
                Line(1, "cdef public %s _%s_results",
                     <<CType("double", seq.NDIM + 1), <<seq.name>>>>) >>
             \o (IF IsFluxSequences(subseqs)
                 THEN << Line(1, "cdef public %s _%s_integrals",
                              <<CType("double", seq.NDIM + 1),
                                <<seq.name>>>>),
                         Line(1, "cdef public %s _%s_sum",
                              <<CType("double", seq.NDIM), <<seq.name>>>>) >>
                 ELSE <<>>)
        ELSE <<>>)
    \o (IF IsIOSubSequences(subseqs) THEN iosequence(seq) ELSE <<>>)

\* the class of one group of sequences (the body of the outer loop)
SubseqsLines(subseqs, atImport) ==
    << Line(0, "@cython.final", <<>>),
       Line(0, "cdef class %s(object):", <<<<classname(subseqs)>>>>) >>
    \o Flatten([i \in DOMAIN subseqs.fields |->
                   SequenceLines(subseqs, subseqs.fields[i])])
    \o (IF IsInputSequences(subseqs) THEN loaddata(subseqs, atImport)
        ELSE <<>>)
    \o (IF IsIOSubSequences(subseqs)
        THEN openfiles(subseqs) \o closefiles(subseqs)
             \o (IF ~IsInputSequence(subseqs)
                 THEN savedata(subseqs, atImport) ELSE <<>>)
        ELSE <<>>)
    \o (IF IsLinkSequences(subseqs) THEN setpointer(subseqs) ELSE <<>>)

sequences(m, atImport) ==
    Flatten([i \in DOMAIN m.sequences |->
                SubseqsLines(m.sequences[i], atImport)])

(***************************************************************************)
(* PyxWriter.numericalparameters, modeldeclarations                        *)
(***************************************************************************)
numericalparameters(m) ==
    IF m.NUMERICAL
    THEN << Line(0, "@cython.final", <<>>),
            Line(0, "cdef class NumConsts(object):", <<>>) >>
         \o [i \in 1..2 |->
                Line(1, "cdef public %s %s",
                     <<<<TYPE2STR["int"]>>,
                       <<<<"nmb_methods", "nmb_stages">>[i]>>>>)]
         \o [i \in 1..2 |->
                Line(1, "cdef public %s %s",
                     <<<<TYPE2STR["float"]>>,
                       <<<<"dt_increase", "dt_decrease">>[i]>>>>)]
         \o << Line(1, "cdef public configutils.Config pub", <<>>),
               Line(1, "cdef public double[:, :, :] a_coefs", <<>>),
               Line(0, "cdef class NumVars(object):", <<>>) >>
         \o [i \in 1..3 |->
                Line(1, "cdef public %s %s",
                     <<<<TYPE2STR["int"]>>,
                       <<<<"nmb_calls", "idx_method", "idx_stage">>[i]>>>>)]
         \o [i \in 1..7 |->
                Line(1, "cdef public %s %s",
                     <<<<TYPE2STR["float"]>>,
                       <<<<"t0", "t1", "dt", "dt_est", "error", "last_error",
                           "extrapolated_error">>[i]>>>>)]
         \o <<Line(1, "cdef public %s f0_ready", <<<<TYPE2STR["bool"]>>>>)>>
    ELSE <<>>

modeldeclarations(m) ==
    << Line(0, "@cython.final", <<>>),
       Line(0, "cdef class Model(object):", <<>>),
       Line(1, "cdef public int idx_sim", <<>>) >>
    \o [i \in DOMAIN m.parameters |->
           Line(1, "cdef public %s %s",
                <<<<classname(m.parameters[i])>>, <<m.parameters[i].name>>>>)]
    \o [i \in DOMAIN m.sequences |->
           Line(1, "cdef public %s %s",
                <<<<classname(m.sequences[i])>>, <<m.sequences[i].name>>>>)]
    \o (IF HasSeqs(m, "states")
        THEN << Line(1, "cdef public StateSequences old_states", <<>>),
                Line(1, "cdef public StateSequences new_states", <<>>) >>
        ELSE <<>>)
    \o (IF hasattr(m, "numconsts")
        THEN <<Line(1, "cdef public NumConsts numconsts", <<>>)>> ELSE <<>>)
    \o (IF hasattr(m, "numvars")
        THEN <<Line(1, "cdef public NumVars numvars", <<>>)>> ELSE <<>>)

(***************************************************************************)
(* PyxWriter.doit: the per-step procedure of the generated model class     *)
(***************************************************************************)
\* doit with new2old after every stage that computes, solver or not
doit_new2old_unguarded(m, atImport) ==
    << Line(1, "cpdef inline void doit(self, int idx) %s:",
            <<nogilSuffix(atImport)>>),
       Line(2, "self.idx_sim = idx", <<>>) >>
    \o (IF HasSeqs(m, "inputs")
        THEN <<Line(2, "self.loaddata()", <<>>)>> ELSE <<>>)
    \o (IF m.INLET_METHODS # <<>>
        THEN <<Line(2, "self.update_inlets()", <<>>)>> ELSE <<>>)
    \o (IF hasattr(m, "solve")
        THEN <<Line(2, "self.solve()", <<>>)>>
        ELSE <<Line(2, "self.run()", <<>>)>>)
    \o (IF HasSeqs(m, "states")
        THEN <<Line(2, "self.new2old()", <<>>)>> ELSE <<>>)
    \o (IF m.OUTLET_METHODS # <<>>
        THEN <<Line(2, "self.update_outlets()", <<>>)>> ELSE <<>>)
    \o (IF HasSeqs(m, "fluxes") \/ HasSeqs(m, "states")
        THEN <<Line(2, "self.savedata()", <<>>)>> ELSE <<>>)

doit(m, atImport) ==
    << Line(1, "cpdef inline void doit(self, int idx) %s:",
            <<nogilSuffix(atImport)>>),
       Line(2, "self.idx_sim = idx", <<>>) >>
    \o (IF HasSeqs(m, "inputs")
        THEN <<Line(2, "self.loaddata()", <<>>)>> ELSE <<>>)
    \o (IF m.INLET_METHODS # <<>>
        THEN <<Line(2, "self.update_inlets()", <<>>)>> ELSE <<>>)
    \o (IF hasattr(m, "solve")
        THEN <<Line(2, "self.solve()", <<>>)>>
        ELSE <<Line(2, "self.run()", <<>>)>>
             \o (IF HasSeqs(m, "states")
                 THEN <<Line(2, "self.new2old()", <<>>)>> ELSE <<>>))
    \o (IF m.OUTLET_METHODS # <<>>
        THEN <<Line(2, "self.update_outlets()", <<>>)>> ELSE <<>>)
    \o (IF HasSeqs(m, "fluxes") \/ HasSeqs(m, "states")
        THEN <<Line(2, "self.savedata()", <<>>)>> ELSE <<>>)

(***************************************************************************)
(* PyxWriter.iofunctions, new2old, _call_methods and its users             *)
(***************************************************************************)
\* the groups one input/output function of the model class applies to
applyfuncs(func) ==
    IF func = "loaddata" THEN {"inputs"}
    ELSE IF func = "savedata" THEN {"fluxes", "states"}
    ELSE {"inputs", "fluxes", "states"}

IOFunctionLines(m, func, fast) ==
    IF \/ (func = "loaddata" /\ ~HasSeqs(m, "inputs"))
       \/ (func = "savedata" /\ ~HasSeqs(m, "fluxes") /\ ~HasSeqs(m, "states"))
    THEN <<>>
    ELSE <<Add(1, method_header(func, func \in {"loaddata", "savedata"},
                                fast))>>
         \o Flatten([i \in DOMAIN m.sequences |->
                IF m.sequences[i].name \in applyfuncs(func)
                THEN IF func = "closefiles"
                     THEN <<Line(2, "self.%s.%s()",
                                 <<<<m.sequences[i].name>>, <<func>>>>)>>
                     ELSE <<Line(2, "self.%s.%s(self.idx_sim)",
                                 <<<<m.sequences[i].name>>, <<func>>>>)>>
                ELSE <<>>])

iofunctions(m, fast) ==
    IOFunctionLines(m, "openfiles", fast)
    \o IOFunctionLines(m, "closefiles", fast)
    \o IOFunctionLines(m, "loaddata", fast)
    \o IOFunctionLines(m, "savedata", fast)

\* the fields of the group of the given name (<<>> without such a group)
FieldsOf(m, name) ==
    IF HasSeqs(m, name)
    THEN m.sequences[CHOOSE i \in DOMAIN m.sequences :
                         m.sequences[i].name = name].fields
    ELSE <<>>

New2OldLines(seq) ==
    IF seq.NDIM = 0
    THEN <<Line(2, "self.old_states.%s = self.new_states.%s",
                <<<<seq.name>>, <<seq.name>>>>)>>
    ELSE [k \in 1..seq.NDIM |->
             Line(2 + (k - 1),
                  "for jdx%d in range(self.states._%s_length_%d):",
                  <<<<Digit(k - 1)>>, <<seq.name>>, <<Digit(k - 1)>>>>)]
         \o <<Line(2 + seq.NDIM,
                   "self.old_states.%s[%s] = self.new_states.%s[%s]",
                   <<<<seq.name>>, Indexing(seq.NDIM),
                     <<seq.name>>, Indexing(seq.NDIM)>>)>>

new2old(m, fast) ==
    IF HasSeqs(m, "states")
    THEN << Add(1, method_header("new2old", TRUE, fast)),
            Line(2, "cdef int jdx0, jdx1, jdx2, jdx3, jdx4, jdx5", <<>>) >>
         \o Flatten([i \in DOMAIN FieldsOf(m, "states") |->
                New2OldLines(SortedFields(FieldsOf(m, "states"))[i])])
    ELSE <<>>

call_methods(m, name, methods, fast) ==
    IF hasattr(m, name)
    THEN <<Add(1, method_header(name, TRUE, fast))>>
         \o (IF methods # <<>>
             THEN [i \in DOMAIN methods |->
                      Line(2, "self.%s()", <<<<methods[i]>>>>)]
             ELSE <<Line(2, "pass", <<>>)>>)
    ELSE <<>>

update_receivers(m, fast) ==
    call_methods(m, "update_receivers", m.RECEIVER_METHODS, fast)

update_inlets(m, fast) ==
    call_methods(m, "update_inlets", m.INLET_METHODS, fast)

run(m, fast) == call_methods(m, "run", m.RUN_METHODS, fast)

update_outlets(m, fast) ==
    call_methods(m, "update_outlets", m.OUTLET_METHODS, fast)

update_senders(m, fast) ==
    call_methods(m, "update_senders", m.SENDER_METHODS, fast)

modelstandardfunctions(m, fast, atImport) ==
    doit(m, atImport) \o iofunctions(m, fast) \o new2old(m, fast)
    \o run(m, fast) \o update_inlets(m, fast) \o update_outlets(m, fast)
    \o update_receivers(m, fast) \o update_senders(m, fast)

(***************************************************************************)
(* decorate_method, PyxWriter.integrate_fluxes, PyxWriter.calculate_error  *)
(***************************************************************************)
\* self.model.sequences.fluxes.numerics
numerics(m) == SelectSeq(FieldsOf(m, "fluxes"), LAMBDA seq : seq.NUMERIC)

\* the wrapper of decorate_method: the header and the yielded lines, each
\* with the indentation it is yielded with, or nothing
decorate_method(m, name, fast, yielded) ==
    IF hasattr(m, name)
    THEN <<Add(1, method_header(name, TRUE, fast))>>
         \o [i \in DOMAIN yielded |-> Add(2, yielded[i])]
    ELSE <<>>

\* 'self.numvars.dt * self.numconsts.a_coefs[...]'
coefs ==
    <<"self.numvars.dt * self.numconsts.a_coefs[self.numvars.idx_method-1,self.numvars.idx_stage,jdx]">>

IntegrateLines(seq) ==
    LET to_ == <<"self.fluxes.%s", seq.name>>
        from_ == <<"self.fluxes._%s_points", seq.name>>
    IN  IF seq.NDIM = 0
        THEN << Line(0, "cdef int jdx", <<>>),
                Line(0, "%s = 0.", <<to_>>),
                Line(0, "for jdx in range(self.numvars.idx_method):", <<>>),
                Line(1, "%s = %s +%s*%s[jdx]", <<to_, to_, coefs, from_>>) >>
        ELSE IF seq.NDIM = 1
        THEN << Line(0, "cdef int jdx, idx0", <<>>),
                Line(0, "for idx0 in range(self.fluxes._%s_length0):",
                     <<<<seq.name>>>>),
                Line(1, "%s[idx0] = 0.", <<to_>>),
                Line(1, "for jdx in range(self.numvars.idx_method):", <<>>),
                Line(2, "%s[idx0] = %s[idx0] + %s*%s[jdx, idx0]",
                     <<to_, to_, coefs, from_>>) >>
        ELSE IF seq.NDIM = 2
        THEN << Line(0, "cdef int jdx, idx0, idx1", <<>>),
                Line(0, "for idx0 in range(self.fluxes._%s_length0):",
                     <<<<seq.name>>>>),
                Line(1, "for idx1 in range(self.fluxes._%s_length1):",
                     <<<<seq.name>>>>),
                Line(2, "%s[idx0, idx1] = 0.", <<to_>>),
                Line(2, "for jdx in range(self.numvars.idx_method):", <<>>),
                Line(3, "%s[idx0, idx1] = %s[idx0, idx1] + %s*%s[jdx, idx0, idx1]",
                     <<to_, to_, coefs, from_>>) >>
        ELSE <<Line(0, "raise", <<NotImplementedError>>)>>

integrate_fluxes(m, fast) ==
    decorate_method(m, "integrate_fluxes", fast,
        Flatten([i \in DOMAIN numerics(m) |-> IntegrateLines(numerics(m)[i])]))

ErrorLines(seq) ==
    LET to_ == <<"self.numvars.error">>
        index == <<"self.numvars.idx_method">>
        from_ == <<"self.fluxes._%s_results", seq.name>>
    IN  IF seq.NDIM = 0
        THEN <<Line(0, "%s = max(%s, fabs(%s[%s]-%s[%s-1]))",
                    <<to_, to_, from_, index, from_, index>>)>>
        ELSE IF seq.NDIM = 1
        THEN << Line(0, "cdef int idx0", <<>>),
                Line(0, "for idx0 in range(self.fluxes._%s_length0):",
                     <<<<seq.name>>>>),
                Line(1, "%s = max(%s, abs(%s[%s, idx0]-%s[%s-1, idx0]))",
                     <<to_, to_, from_, index, from_, index>>) >>
        ELSE IF seq.NDIM = 2
        THEN << Line(0, "cdef int idx0, idx1", <<>>),
                Line(0, "for idx0 in range(self.fluxes._%s_length0):",
                     <<<<seq.name>>>>),
                Line(1, "for idx1 in range(self.fluxes._%s_length1):",
                     <<<<seq.name>>>>),
                Line(2, "%s = max(%s, abs(%s[%s, idx0, idx1]-%s[%s-1, idx0, idx1]))",
                     <<to_, to_, from_, index, from_, index>>) >>
        ELSE <<Line(0, "raise", <<NotImplementedError>>)>>

calculate_error(m, fast) ==
    decorate_method(m, "calculate_error", fast,
        <<Line(0, "%s = 0.", <<<<"self.numvars.error">>>>)>>
        \o Flatten([i \in DOMAIN numerics(m) |-> ErrorLines(numerics(m)[i])]))

(***************************************************************************)
(* PyxWriter._assign_seqvalues and its callers, reset_sum_fluxes,          *)
(* addup_fluxes, modelnumericfunctions                                     *)
(***************************************************************************)
\* the lines yielded for one sequence of the group named subseqs
AssignLines(subseqs, seq, target, index, load) ==
    LET from1 == <<"self.%s.%s", subseqs, seq.name>>
        to1 == <<"self.%s._%s_", subseqs, seq.name, target>>
               \o (IF index # "None"
                   THEN <<"[self.numvars.%s]", index>> ELSE <<>>)
        from2 == IF load THEN to1 ELSE from1
        to2 == IF load THEN from1 ELSE to1
    IN  IF seq.NDIM = 0
        THEN <<Line(0, "%s = %s", <<to2, from2>>)>>
        ELSE IF seq.NDIM = 1
        THEN << Line(0, "cdef int idx0", <<>>),
                Line(0, "for idx0 in range(self.%s._%s_length0):",
                     <<<<subseqs>>, <<seq.name>>>>),
                Line(1, "%s[idx0] = %s[idx0]", <<to2, from2>>) >>
        ELSE IF seq.NDIM = 2
        THEN << Line(0, "cdef int idx0, idx1", <<>>),
                Line(0, "for idx0 in range(self.%s._%s_length0):",
                     <<<<subseqs>>, <<seq.name>>>>),
                \* '    for idx1 in range(self._%s_length1):' gets two
                \* arguments for its one place
                Line(0, "raise", <<TypeError>>) >>
        ELSE <<Line(0, "raise", <<NotImplementedError>>)>>

\* the loop over all sequences of the group, numeric or not
assign_seqvalues(m, subseqs, target, index, load) ==
    Flatten([i \in DOMAIN FieldsOf(m, subseqs) |->
                AssignLines(subseqs, FieldsOf(m, subseqs)[i], target, index,
                            load)])

get_point_states(m, fast) ==
    decorate_method(m, "get_point_states", fast,
        assign_seqvalues(m, "states", "points", "idx_stage", TRUE))

set_point_states(m, fast) ==
    decorate_method(m, "set_point_states", fast,
        assign_seqvalues(m, "states", "points", "idx_stage", FALSE))

set_result_states(m, fast) ==
    decorate_method(m, "set_result_states", fast,
        assign_seqvalues(m, "states", "results", "idx_method", FALSE))

get_sum_fluxes(m, fast) ==
    decorate_method(m, "get_sum_fluxes", fast,
        assign_seqvalues(m, "fluxes", "sum", "None", TRUE))

set_point_fluxes(m, fast) ==
    decorate_method(m, "set_point_fluxes", fast,
        assign_seqvalues(m, "fluxes", "points", "idx_stage", FALSE))

set_result_fluxes(m, fast) ==
    decorate_method(m, "set_result_fluxes", fast,
        assign_seqvalues(m, "fluxes", "results", "idx_method", FALSE))

ResetLines(seq) ==
    LET to_ == <<"self.fluxes._%s_sum", seq.name>>
    IN  IF seq.NDIM = 0
        THEN <<Line(0, "%s = 0.", <<to_>>)>>
        ELSE IF seq.NDIM = 1
        THEN << Line(0, "cdef int idx0", <<>>),
                Line(0, "for idx0 in range(self.fluxes._%s_length0):",
                     <<<<seq.name>>>>),
                Line(1, "%s[idx0] = 0.", <<to_>>) >>
        ELSE IF seq.NDIM = 2
        THEN << Line(0, "cdef int idx0, idx1", <<>>),
                Line(0, "for idx0 in range(self.fluxes._%s_length0):",
                     <<<<seq.name>>>>),
                Line(1, "for idx1 in range(self.fluxes._%s_length1):",
                     <<<<seq.name>>>>),
                Line(2, "%s[idx0, idx1] = 0.", <<to_>>) >>
        ELSE <<Line(0, "raise", <<NotImplementedError>>)>>

reset_sum_fluxes(m, fast) ==
    decorate_method(m, "reset_sum_fluxes", fast,
        Flatten([i \in DOMAIN numerics(m) |-> ResetLines(numerics(m)[i])]))

AddupLines(seq) ==
    LET to_ == <<"self.fluxes._%s_sum", seq.name>>
        from_ == <<"self.fluxes.%s", seq.name>>
    IN  IF seq.NDIM = 0
        THEN <<Line(0, "%s = %s + %s", <<to_, to_, from_>>)>>
        ELSE IF seq.NDIM = 1
        THEN << Line(0, "cdef int idx0", <<>>),
                Line(0, "for idx0 in range(self.fluxes._%s_length0):",
                     <<<<seq.name>>>>),
                Line(1, "%s[idx0] = %s[idx0] + %s[idx0]",
                     <<to_, to_, from_>>) >>
        ELSE IF seq.NDIM = 2
        THEN << Line(0, "cdef int idx0, idx1", <<>>),
                Line(0, "for idx0 in range(self.fluxes._%s_length0):",
                     <<<<seq.name>>>>),
                Line(1, "for idx1 in range(self.fluxes._%s_length1):",
                     <<<<seq.name>>>>),
                Line(2, "%s[idx0, idx1] = %s[idx0, idx1] + %s[idx0, idx1]",
                     <<to_, to_, from_>>) >>
        ELSE <<Line(0, "raise", <<NotImplementedError>>)>>

addup_fluxes(m, fast) ==
    decorate_method(m, "addup_fluxes", fast,
        Flatten([i \in DOMAIN numerics(m) |-> AddupLines(numerics(m)[i])]))

\* the routines of modelnumericfunctions the generator writes itself, in
\* the order they are appended (the translated user routines solve,
\* calculate_single_terms, calculate_full_terms and extrapolate_error come
\* from FuncConverter and _call_methods)
modelnumericfunctions(m, fast) ==
    get_point_states(m, fast) \o set_point_states(m, fast)
    \o set_result_states(m, fast) \o get_sum_fluxes(m, fast)
    \o set_point_fluxes(m, fast) \o set_result_fluxes(m, fast)
    \o integrate_fluxes(m, fast) \o reset_sum_fluxes(m, fast)
    \o addup_fluxes(m, fast) \o calculate_error(m, fast)

(***************************************************************************)
(* PyxWriter.write                                                         *)
(***************************************************************************)
\* the sections in the order write() hands them to the file; the sections
\* of the numeric and the user functions follow them and are empty for a
\* model that declares neither numeric methods nor user functions
Sections(m, fast, atImport) ==
    << Result(cythonoptions(fast)),
       Result(cimports),
       Result(constants(m)),
       Result(parameters(m)),
       Result(sequences(m, atImport)),
       Result(numericalparameters(m)),
       Result(modeldeclarations(m)),
       Result(modelstandardfunctions(m, fast, atImport)) >>

\* what write() leaves in the file and how it ends: every section is
\* computed and then written, so the sections before the first one that
\* raises are in the file, and that exception leaves write()
write(m, fast, atImport) ==
    LET secs == Sections(m, fast, atImport)
        bad == {i \in DOMAIN secs : secs[i].exc # "none"}
        stop == IF bad = {} THEN Len(secs) + 1
                ELSE CHOOSE i \in bad : \A j \in bad : i <= j
    IN  [exc |-> IF bad = {} THEN "none" ELSE secs[stop].exc,
         lines |-> Flatten([i \in 1..(stop - 1) |-> secs[i].lines])]

\* open(self.pyxpath, 'a'): the file is created or extended
OpenForAppending(old, new) == old \o new

\* open(self.pyxpath, 'w'): the file is created or truncated
OpenForWriting(old, new) == new

(***************************************************************************)
(* Model descriptors                                                       *)
(***************************************************************************)
GroupNames == <<"inputs", "fluxes", "states", "logs", "inlets", "outlets">>

GroupClass == [inputs |-> "InputSequences", fluxes |-> "FluxSequences",
               states |-> "StateSequences", logs |-> "LogSequences",
               inlets |-> "InletSequences", outlets |-> "OutletSequences"]

NameTable == [control |-> <<"k", "a", "c">>, inputs |-> <<"p", "t", "n">>,
              fluxes |-> <<"q", "e", "r">>, states |-> <<"s", "b", "w">>,
              logs |-> <<"l", "g", "o">>, inlets |-> <<"i", "d", "h">>,
              outlets |-> <<"u", "f", "j">>]

Min(a, b) == IF a <= b THEN a ELSE b

\* all sequences over S of length at most n
SeqsUpTo(S, n) == UNION {[1..k -> S] : k \in 0..n}

\* a model whose groups `present` all hold Len(nd) fields, the i-th of
\* dimensionality nd[i] (link sequences: at most 1); a model with a solver
\* is a numerical one, whose flux and state sequences are numeric
Descriptor(present, nd, numerical) ==
    [ parameters |->
        << [name |-> "control", cls |-> "ControlParameters",
            fields |-> [i \in DOMAIN nd |->
                [name |-> NameTable["control"][i],
                 TYPE |-> <<"float", "int", "bool">>[i],
                 NDIM |-> nd[i]]]] >>,
      sequences |->
        SelectSeq(
            [g \in DOMAIN GroupNames |->
                [name |-> GroupNames[g], cls |-> GroupClass[GroupNames[g]],
                 fields |-> [i \in DOMAIN nd |->
                    [name |-> NameTable[GroupNames[g]][i],
                     NDIM |-> IF GroupNames[g] \in {"inlets", "outlets"}
                              THEN Min(nd[i], 1) ELSE nd[i],
                     NUMERIC |-> numerical
                                 /\ GroupNames[g] \in {"fluxes", "states"}]]]],
            LAMBDA grp : grp.name \in present),
      constants |-> <<[name |-> "FIELD", TYPE |-> "int", NDIM |-> 0,
                       value |-> "1"]>>,
      NUMERICAL |-> numerical,
      attrs |-> {"run", "update_inlets", "update_outlets",
                 "update_receivers", "update_senders"}
                \cup (IF numerical
                      THEN {"solve", "numconsts", "numvars",
                            "get_point_states", "set_point_states",
                            "set_result_states", "get_sum_fluxes",
                            "set_point_fluxes", "set_result_fluxes",
                            "integrate_fluxes", "reset_sum_fluxes",
                            "addup_fluxes", "calculate_error"}
                      ELSE {}),
      RUN_METHODS |-> <<"calc_q">>,
      INLET_METHODS |-> IF "inlets" \in present THEN <<"pick_q">> ELSE <<>>,
      OUTLET_METHODS |-> IF "outlets" \in present THEN <<"pass_q">> ELSE <<>>,
      RECEIVER_METHODS |-> <<>>,
      SENDER_METHODS |-> <<>> ]

\* the descriptors the generator is applied to: every choice of groups, a
\* model with state sequences having log sequences too
Descriptors ==
    { Descriptor(present \cup (IF "states" \in present THEN {"logs"} ELSE {}),
                 nd, numerical) :
        present \in SUBSET ({GroupNames[g] : g \in DOMAIN GroupNames}
                            \ {"logs"}),
        nd \in SeqsUpTo(0..3, MaxFields),
        numerical \in BOOLEAN }

\* the models the build pipeline is run for: one that translates, and one
\* with a flux sequence of three dimensions
BuildModels ==
    { Descriptor({"states"}, <<1>>, FALSE),
      Descriptor({"fluxes"}, <<3>>, FALSE) }

(***************************************************************************)
(* The file system of the build                                            *)
(***************************************************************************)
Callers == {1, 2}

SourceFiles == {"model.py", "base.py"}

\* file names are sequences of tokens
cyname == <<"c_m">>

dllextension == <<".so">>

buildpath == "autogen/_build"

cydirpath == "autogen"

\* filename.startswith(prefix)
startswith(filename, prefix) ==
    /\ Len(filename) >= Len(prefix)
    /\ SubSeq(filename, 1, Len(prefix)) = prefix

\* filename.endswith(suffix)
endswith(filename, suffix) ==
    /\ Len(filename) >= Len(suffix)
    /\ SubSeq(filename, Len(filename) - Len(suffix) + 1, Len(filename))
           = suffix

\* a directory listing without the compiled module
OtherFiles == << <<"c_n", ".so">> >>

\* a directory listing with the compiled module, the platform tag in its name
WithModule == << <<"c_n", ".so">>, <<"c_m", ".cpython-36m", ".so">> >>

\* the trees a compilation may leave under buildpath, as os.walk lists them
\* top-down: the files of buildpath itself first, then those of its
\* subdirectories
CompileTrees ==
    { <<root>> \o subs : root \in {<<>>, WithModule},
                         subs \in SeqsUpTo({OtherFiles, WithModule}, 2) }

NoFile == [exists |-> FALSE, mtime |-> 0, lines |-> <<>>]

NoDll == [exists |-> FALSE, mtime |-> 0]

(***************************************************************************)
(* Cythonizer.cyfilepath, Cythonizer.outdated                              *)
(***************************************************************************)
\* the file under cyfilepath: os.path.join(cydirpath, cyname + '.pyx')
cyfilepath(pyxfile, dllfile) == [exists |-> pyxfile.exists,
                                 mtime |-> pyxfile.mtime]

outdated(cyfile, pydates) ==
    IF ~cyfile.exists THEN TRUE
    ELSE \E pysourcefile \in DOMAIN pydates :
             pydates[pysourcefile] > cyfile.mtime

(***************************************************************************)
(* Cythonizer.movedll                                                      *)
(***************************************************************************)
\* the first file name of one directory that passes the test of the inner
\* loop (0: none does)
FirstMatch(filenames) ==
    LET hits == {j \in DOMAIN filenames :
                    /\ startswith(filenames[j], cyname)
                    /\ endswith(filenames[j], dllextension)}
    IN  IF hits = {} THEN 0 ELSE CHOOSE j \in hits : \A k \in hits : j <= k

\* the indices of the directories the outer loop visits: os.walk(buildpath)
\* after next(dirinfos) has taken its first entry
dirinfos(dirs) == {d \in DOMAIN dirs : d > 1}

\* position <<directory, file>> of the file movedll picks (<<0, 0>>: none)
Picked(dirs) ==
    LET hits == {d \in dirinfos(dirs) : FirstMatch(dirs[d]) # 0}
    IN  IF hits = {} THEN <<0, 0>>
        ELSE LET d == CHOOSE d \in hits : \A e \in hits : d <= e
             IN  <<d, FirstMatch(dirs[d])>>

\* format % args: Python raises TypeError unless every %s gets an argument
PercentFormat(placeholders, args, error) ==
    IF Len(args) = placeholders
    THEN [type |-> error, names |-> {args[i] : i \in DOMAIN args}]
    ELSE [type |-> "TypeError", names |-> {}]

\* raise IOError('... %s ... %s ... %s ...' % self.buildpath)
NotFoundError == PercentFormat(3, <<buildpath>>, "IOError")

\* objecttools.augmentexcmessage(prefix, suffix): raises the exception of
\* the failed move again, with the paths and the hint added to its message
augmentexcmessage ==
    [type |-> "OSError", names |-> {buildpath, cydirpath}]

NoExc == [type |-> "none", names |-> {}]

\* the outcome of movedll on the tree `dirs`; `blocked` says whether
\* shutil.move fails
movedll(dirs, blocked) ==
    IF dirs = <<>>
    THEN [exc |-> [type |-> "StopIteration", names |-> {}],
          moved |-> <<0, 0>>]
    ELSE IF Picked(dirs) = <<0, 0>>
    THEN [exc |-> NotFoundError, moved |-> <<0, 0>>]
    ELSE IF blocked
    THEN [exc |-> augmentexcmessage, moved |-> <<0, 0>>]
    ELSE [exc |-> NoExc, moved |-> Picked(dirs)]

(***************************************************************************)
(* Cythonizer.complete and Cythonizer.doit, step by step                   *)
(***************************************************************************)
OrigArgv == <<"prog", "arg">>

\* [sys.argv[0], 'build_ext', '--build-lib='+self.buildpath]
BuildArgv(a) == <<a[1], "build_ext", "--build-lib=" , buildpath>>

\* complete() with the first tester run outside of `if self.outdated:`
complete_next_tests_first(stale, skip) ==
    IF ~skip THEN "test1" ELSE IF stale THEN "write" ELSE "returned"

\* where complete() goes after it has read self.outdated
complete_next(stale, skip) ==
    IF stale THEN (IF skip THEN "write" ELSE "test1") ELSE "returned"

\* doit() with every step in a try block that drops the exception
doit_next_goes_on(step, raised, skip) ==
    IF step = "write" THEN "compile"
    ELSE IF step = "compile" THEN "move"
    ELSE IF raised THEN "raised"
    ELSE IF skip THEN "returned"
    ELSE "test2"

\* where doit() goes after one of its steps: the next statement when the
\* step returned, out of doit() with the exception when it raised
doit_next(step, raised, skip) ==
    IF raised THEN "raised"
    ELSE IF step = "write" THEN "compile"
    ELSE IF step = "compile" THEN "move"
    ELSE IF skip THEN "returned"
    ELSE "test2"

Last(seq) == seq[Len(seq)]

\* a caller that serializes takes the lock before it calls complete()
Acquire(p) ==
    /\ locking /\ lock = 0 /\ pc[p] = "idle" /\ calls[p] < MaxCalls
    /\ lock' = p
    /\ pc' = [pc EXCEPT ![p] = "locked"]
    /\ UNCHANGED <<mem, routine,
                   model, fastcython, nogilAtImport, usecython, skipdoctests,
                   argv, clock, pyTime, pyx, dll, build, log, exc, calls,
                   last, touched, locking, written, out>>

\* complete() is entered and reads self.outdated
CompleteBegin(p) ==
    /\ pc[p] = (IF locking THEN "locked" ELSE "idle")
    /\ calls[p] < MaxCalls
    /\ LET stale == outdated(cyfilepath(pyx, dll), pyTime)
       IN  /\ pc' = [pc EXCEPT ![p] = complete_next(stale, skipdoctests)]
           /\ log' = [log EXCEPT ![p] =
                         <<IF stale THEN "stale" ELSE "fresh">>]
    /\ exc' = [exc EXCEPT ![p] = NoExc]
    /\ calls' = [calls EXCEPT ![p] = @ + 1]
    /\ last' = [last EXCEPT ![p].began = touched]
    /\ UNCHANGED <<mem, routine,
                   model, fastcython, nogilAtImport, usecython, skipdoctests,
                   argv, clock, pyTime, pyx, dll, build, touched, lock,
                   locking, written, out>>

\* pub.options.usecython = <use>; self.tester.doit()
Test(p, at, use, next) ==
    /\ pc[p] = at
    /\ usecython' = use
    /\ log' = [log EXCEPT ![p] = Append(@, "test")]
    /\ \/ /\ pc' = [pc EXCEPT ![p] = next]
          /\ exc' = exc
       \/ /\ pc' = [pc EXCEPT ![p] = "raised"]
          /\ exc' = [exc EXCEPT ![p] = [type |-> "TesterError", names |-> {}]]
    /\ UNCHANGED <<mem, routine,
                   model, fastcython, nogilAtImport, skipdoctests, argv,
                   clock, pyTime, pyx, dll, build, calls, last, touched,
                   lock, locking, written, out>>

Test1(p) == Test(p, "test1", FALSE, "write")

Test2(p) == Test(p, "test2", TRUE, "returned")

\* self.pyxwriter.write()
Write(p) ==
    /\ pc[p] = "write"
    /\ LET res == write(model, fastcython, nogilAtImport)
       IN  /\ pyx' = [exists |-> TRUE, mtime |-> clock + 1,
                      lines |-> OpenForWriting(pyx.lines, res.lines)]
           /\ pc' = [pc EXCEPT ![p] =
                        doit_next("write", res.exc # "none", skipdoctests)]
           /\ exc' = [exc EXCEPT ![p] =
                         IF res.exc = "none" THEN NoExc
                         ELSE [type |-> res.exc, names |-> {}]]
           /\ written' = IF res.exc # "none" THEN written
                         ELSE [n |-> written.n + 1,
                               first |-> IF written.n = 0 THEN pyx'.lines
                                         ELSE written.first,
                               same |-> written.same
                                        /\ (written.n > 0
                                            => pyx'.lines = written.first)]
    /\ clock' = clock + 1
    /\ log' = [log EXCEPT ![p] = Append(@, "write")]
    /\ UNCHANGED <<mem, routine,
                   model, fastcython, nogilAtImport, usecython, skipdoctests,
                   argv, pyTime, dll, build, calls, last, touched, lock,
                   locking, out>>

\* self.compile_(): sys.argv is replaced and, after setup() has returned,
\* set back; an exception of setup() leaves it replaced
Compile(p) ==
    /\ pc[p] = "compile"
    /\ log' = [log EXCEPT ![p] = Append(@, "compile")]
    /\ \/ /\ \E tree \in CompileTrees :
                 build' = [time |-> clock + 1, dirs |-> tree,
                           moved |-> <<0, 0>>]
          /\ clock' = clock + 1
          /\ argv' = argv
          /\ pc' = [pc EXCEPT ![p] =
                       doit_next("compile", FALSE, skipdoctests)]
          /\ exc' = exc
       \/ /\ argv' = BuildArgv(argv)
          /\ pc' = [pc EXCEPT ![p] =
                       doit_next("compile", TRUE, skipdoctests)]
          /\ exc' = [exc EXCEPT ![p] =
                        [type |-> "CompileError", names |-> {}]]
          /\ UNCHANGED <<build, clock>>
    /\ UNCHANGED <<mem, routine,
                   model, fastcython, nogilAtImport, usecython, skipdoctests,
                   pyTime, pyx, dll, calls, last, touched, lock, locking,
                   written, out>>

\* the files of the build tree that are still there
Remaining(b) ==
    [d \in DOMAIN b.dirs |->
        IF b.moved[1] = d
        THEN [j \in 1..(Len(b.dirs[d]) - 1) |->
                 IF j < b.moved[2] THEN b.dirs[d][j] ELSE b.dirs[d][j + 1]]
        ELSE b.dirs[d]]

\* self.movedll()
Move(p) ==
    /\ pc[p] = "move"
    /\ log' = [log EXCEPT ![p] = Append(@, "move")]
    /\ \E blocked \in BOOLEAN :
          LET res == movedll(Remaining(build), blocked)
          IN  /\ (blocked => Picked(Remaining(build)) # <<0, 0>>)
              /\ build' = IF res.moved = <<0, 0>> THEN build
                          ELSE [time |-> build.time,
                                dirs |-> Remaining(build),
                                moved |-> res.moved]
              /\ dll' = IF res.moved = <<0, 0>> THEN dll
                        ELSE [exists |-> TRUE, mtime |-> build.time]
              /\ exc' = [exc EXCEPT ![p] = res.exc]
              /\ pc' = [pc EXCEPT ![p] =
                           doit_next("move", res.exc # NoExc, skipdoctests)]
    /\ UNCHANGED <<mem, routine,
                   model, fastcython, nogilAtImport, usecython, skipdoctests,
                   argv, clock, pyTime, pyx, calls, last, touched, lock,
                   locking, written, out>>

\* how an invocation that is over has ended
Outcome(p) ==
    IF pc[p] = "raised" THEN "raised"
    ELSE IF Head(log[p]) = "fresh" THEN "fresh"
    ELSE "built"

\* complete() gives control back at once and leaves doit() to a thread of
\* its own
Return_while_building(p) ==
    /\ pc[p] \in {"write", "compile", "move", "returned", "raised"}
    /\ pc' = [pc EXCEPT ![p] =
                 IF pc[p] \in {"returned", "raised"} THEN "idle" ELSE pc[p]]
    /\ last' = [last EXCEPT ![p].how = Outcome(p),
                            ![p].step = Last(log[p]),
                            ![p].since = last[p].began]
    /\ lock' = IF lock = p THEN 0 ELSE lock
    /\ UNCHANGED <<mem, routine,
                   model, fastcython, nogilAtImport, usecython, skipdoctests,
                   argv, clock, pyTime, pyx, dll, build, log, exc, calls,
                   touched, locking, written, out>>

\* complete() gives control back to its caller, who releases the lock if
\* there is one
Return(p) ==
    /\ pc[p] \in {"returned", "raised"}
    /\ pc' = [pc EXCEPT ![p] = "idle"]
    /\ last' = [last EXCEPT ![p].how = Outcome(p),
                            ![p].step = Last(log[p]),
                            ![p].since = last[p].began]
    /\ lock' = IF lock = p THEN 0 ELSE lock
    /\ UNCHANGED <<mem, routine,
                   model, fastcython, nogilAtImport, usecython, skipdoctests,
                   argv, clock, pyTime, pyx, dll, build, log, exc, calls,
                   touched, locking, written, out>>

\* a source file of the model is edited
TouchSource(f) ==
    /\ touched < MaxTouch
    /\ pyTime' = [pyTime EXCEPT ![f] = clock + 1]
    /\ clock' = clock + 1
    /\ touched' = touched + 1
    /\ UNCHANGED <<mem, routine,
                   model, fastcython, nogilAtImport, usecython, skipdoctests,
                   argv, pyx, dll, build, pc, log, exc, calls, last, lock,
                   locking, written, out>>

(***************************************************************************)
(* PyxWriter properties applied to a model descriptor                      *)
(***************************************************************************)
\* a property read from a writer that was just constructed: what it yields
\* does not depend on the properties read before
Emit(kind, lines) ==
    /\ out.kind = "none"
    /\ out' = [kind |-> kind, exc |-> Result(lines).exc,
               lines |-> Result(lines).lines]
    /\ UNCHANGED <<mem, routine,
                   model, fastcython, nogilAtImport, usecython, skipdoctests,
                   argv, clock, pyTime, pyx, dll, build, pc, log, exc, calls,
                   last, touched, lock, locking, written>>

EmitParameters == Emit("parameters", parameters(model))

EmitSequences == Emit("sequences", sequences(model, nogilAtImport))

EmitDoit == Emit("doit", doit(model, nogilAtImport))

EmitStandardFunctions ==
    Emit("modelstandardfunctions",
         modelstandardfunctions(model, fastcython, nogilAtImport))

EmitNumericFunctions ==
    Emit("modelnumericfunctions", modelnumericfunctions(model, fastcython))

(***************************************************************************)
(* Runs of the emitted routines openfiles, closefiles, loaddata, savedata  *)
(* on an instance of a class of input/output sequences                     *)
(***************************************************************************)
\* element p of a field the model has filled for the k-th time (0: the
\* content the files and buffers start with)
Elem(k, p) == 10 * k + p

\* number of elements of an array of the given shape
RECURSIVE Size(_)
Size(shape) == IF shape = <<>> THEN 1 ELSE Head(shape) * Size(Tail(shape))

\* position of the element with the 0-based indices t in the C-contiguous
\* array of the given shape
RECURSIVE Flat(_, _)
Flat(t, shape) ==
    IF t = <<>> THEN 1
    ELSE Head(t) * Size(Tail(shape)) + Flat(Tail(t), Tail(shape))

\* the digit a token stands for
DigitValue(token) == CHOOSE i \in 0..5 : Digit(i) = token

\* the values the variables of the nested loops
\* `for <var> in range(<bound>)` take together
LoopTuples(loops) ==
    {t \in [DOMAIN loops -> 0..(MaxAxis - 1)] :
        \A k \in DOMAIN loops : t[k] < loops[k].bound}

\* the indices [jdx0,jdx1,...] of a statement inside the loops, when the
\* loop variables have the values t
Indexed(indexing, loops, t) ==
    [k \in DOMAIN indexing |->
        t[CHOOSE j \in DOMAIN loops : loops[j].var = indexing[k]]]

ClosedFile == [open |-> FALSE, pos |-> 0]

\* fopen(path, "rb+"): a stream at the start of the existing file
fopen(m, f) == [m EXCEPT !.file[f] = [open |-> TRUE, pos |-> 0]]

\* fseek(stream, offset, SEEK_SET)
fseek(m, f, offset) ==
    IF ~m.file[f].open THEN [m EXCEPT !.crashed = TRUE]
    ELSE [m EXCEPT !.file[f].pos = offset]

\* fclose(stream)
fclose(m, f) ==
    IF ~m.file[f].open THEN [m EXCEPT !.crashed = TRUE]
    ELSE [m EXCEPT !.file[f] = ClosedFile]

\* fread(&field, size, count, stream): at the end of the file less is read
fread(m, n, size, count, f) ==
    LET h == m.file[f]
        first == h.pos \div size
        got == Min(count, Len(m.disc[f]) - first)
    IN  IF ~h.open THEN [m EXCEPT !.crashed = TRUE]
        ELSE [m EXCEPT !.val[n] = [p \in DOMAIN m.val[n] |->
                                      IF p <= got THEN m.disc[f][first + p]
                                      ELSE m.val[n][p]],
                       !.file[f].pos = h.pos + size * got]

\* fwrite(&field, size, count, stream)
fwrite(m, n, size, count, f) ==
    LET h == m.file[f]
        first == h.pos \div size
        range == (first + 1)..(first + count)
        len == IF first + count > Len(m.disc[f]) THEN first + count
               ELSE Len(m.disc[f])
    IN  IF ~h.open THEN [m EXCEPT !.crashed = TRUE]
        ELSE [m EXCEPT !.disc[f] = [p \in 1..len |->
                                       IF p \in range THEN m.val[n][p - first]
                                       ELSE m.disc[f][p]],
                       !.file[f].pos = h.pos + size * count]

\* the state of a run: the instance m, whether the statement under the last
\* if/elif is executed (on), whether a branch of that chain was taken, and
\* the bounds of the loops around the current statement
RunStart(m) == [m |-> m, on |-> TRUE, taken |-> FALSE, loops |-> <<>>]

\* the effect of one emitted line; idx is the argument of the routine
IOStatement(line, st, idx) ==
    LET a == line.args
        m == st.m
        Do(new) == IF st.on THEN [st EXCEPT !.m = new] ELSE st
    IN  CASE line.fmt = "if self._%s_diskflag:" ->
                 [st EXCEPT !.on = m.disk[a[1][1]],
                            !.taken = m.disk[a[1][1]], !.loops = <<>>]
          [] line.fmt = "elif self._%s_ramflag:" ->
                 [st EXCEPT !.on = ~st.taken /\ m.ram[a[1][1]],
                            !.taken = st.taken \/ m.ram[a[1][1]],
                            !.loops = <<>>]
          [] line.fmt = "self._%s_file = fopen(str(self._%s_path).encode(), \"rb+\")" ->
                 Do(fopen(m, a[1][1]))
          [] line.fmt = "fseek(self._%s_file, idx*8, SEEK_SET)" ->
                 Do(fseek(m, a[1][1], idx * 8))
          [] line.fmt = "fseek(self._%s_file, idx*self._%s_length*8, SEEK_SET)" ->
                 Do(fseek(m, a[1][1], idx * m.length[a[2][1]] * 8))
          [] line.fmt = "fclose(self._%s_file)" ->
                 Do(fclose(m, a[1][1]))
          [] line.fmt = "fread(&self.%s, 8, 1, self._%s_file)" ->
                 Do(fread(m, a[1][1], 8, 1, a[2][1]))
          [] line.fmt = "fread(&self.%s[0], 8, self._%s_length, self._%s_file)" ->
                 Do(fread(m, a[1][1], 8, m.length[a[2][1]], a[3][1]))
          [] line.fmt = "fwrite(&self.%s, 8, 1, self._%s_file)" ->
                 Do(fwrite(m, a[1][1], 8, 1, a[2][1]))
          [] line.fmt = "fwrite(&self.%s[0], 8, self._%s_length, self._%s_file)" ->
                 Do(fwrite(m, a[1][1], 8, m.length[a[2][1]], a[3][1]))
          [] line.fmt = "self.%s = self._%s_array[idx]" ->
                 Do([m EXCEPT !.val[a[1][1]] = m.array[a[2][1]][idx + 1]])
          [] line.fmt = "self._%s_array[idx] = self.%s" ->
                 Do([m EXCEPT !.array[a[1][1]][idx + 1] = m.val[a[2][1]]])
          [] line.fmt = "for jdx%d in range(self._%s_length_%d):" ->
                 [st EXCEPT !.loops =
                     Append(@, [var |-> Indexing(6)[DigitValue(a[1][1]) + 1],
                                bound |-> m.shape[a[2][1]]
                                              [DigitValue(a[3][1]) + 1]])]
          [] line.fmt = "self.%s[%s] = self._%s_array[idx,%s]" ->
                 Do([m EXCEPT !.val[a[1][1]] =
                        [p \in DOMAIN m.val[a[1][1]] |->
                            IF \E t \in LoopTuples(st.loops) :
                                   Flat(Indexed(a[2], st.loops, t),
                                        m.shape[a[1][1]]) = p
                            THEN m.array[a[3][1]][idx + 1][p]
                            ELSE m.val[a[1][1]][p]]])
          [] line.fmt = "self._%s_array[idx,%s] = self.%s[%s]" ->
                 Do([m EXCEPT !.array[a[1][1]][idx + 1] =
                        [p \in DOMAIN m.val[a[3][1]] |->
                            IF \E t \in LoopTuples(st.loops) :
                                   Flat(Indexed(a[4], st.loops, t),
                                        m.shape[a[3][1]]) = p
                            THEN m.val[a[3][1]][p]
                            ELSE m.array[a[1][1]][idx + 1][p]]])
          [] OTHER -> st

\* the instance after the emitted routine `lines` has run with argument idx
RECURSIVE RunIO(_, _, _)
RunIO(lines, st, idx) ==
    IF lines = <<>> \/ st.m.crashed THEN st.m
    ELSE RunIO(Tail(lines), IOStatement(Head(lines), st, idx), idx)

(***************************************************************************)
(* An instance of the class of input sequences in a simulation run: the    *)
(* files are opened at a step, then step by step the series are either     *)
(* loaded or calculated and saved, then the files are closed               *)
(***************************************************************************)
\* the dimensionalities of the fields of the groups that are instantiated
RunDims == {<<0>>, <<1>>, <<2>>, <<1, 0>>}

\* length of the k-th axis of every array
AxisLength(k) == IF k = 1 THEN MaxAxis ELSE MaxAxis - 1

SimSteps == 0..(MaxSteps - 1)

\* the group of sequences the instance belongs to
IOGroup == model.sequences[1]

IONames == {IOGroup.fields[i].name : i \in DOMAIN IOGroup.fields}

\* a field of the given number of elements with its k-th filling
Filled(k, length) == [p \in 1..length |-> Elem(k, p)]

\* the instance of the group before the first call: every file exists with
\* one record per simulation step, every buffer has one entry per step
NewIO(group, disk, ram) ==
    LET fieldOf(n) == group.fields[CHOOSE i \in DOMAIN group.fields :
                                       group.fields[i].name = n]
        names == {group.fields[i].name : i \in DOMAIN group.fields}
        shape == [n \in names |->
                     [k \in 1..fieldOf(n).NDIM |-> AxisLength(k)]]
        length == [n \in names |-> Size(shape[n])]
    IN  [ kind |-> "io", shape |-> shape, length |-> length,
          val |-> [n \in names |-> Filled(MaxSteps + 1, length[n])],
          disk |-> disk, ram |-> ram,
          file |-> [n \in names |-> ClosedFile],
          disc |-> [n \in names |->
                       [p \in 1..(MaxSteps * length[n]) |->
                           Elem(0, ((p - 1) % length[n]) + 1)]],
          array |-> [n \in names |->
                        [s \in 1..MaxSteps |-> Filled(0, length[n])]],
          crashed |-> FALSE,
          sim |-> [on |-> FALSE, what |-> "none", t |-> 0, fresh |-> FALSE],
          did |-> "new",
          saved |-> [n \in names |-> [s \in SimSteps |-> <<>>]] ]

\* one call of an emitted routine of the instance
Call(op, lines, idx, sim) ==
    /\ mem.kind = "io" /\ ~mem.crashed
    /\ mem' = [RunIO(lines, RunStart(mem), idx) EXCEPT
                  !.sim = sim, !.did = op,
                  !.saved = IF op = "savedata"
                            THEN [n \in IONames |->
                                     [mem.saved[n] EXCEPT ![idx] =
                                         IF mem.disk[n] THEN mem.val[n]
                                         ELSE @]]
                            ELSE @]
    /\ UNCHANGED <<routine, model, fastcython, nogilAtImport, usecython,
                   skipdoctests, argv, clock, pyTime, pyx, dll, build, pc,
                   log, exc, calls, last, touched, lock, locking, written,
                   out>>

\* the run starts at step idx and either loads or saves the series
OpenFiles(idx, what) ==
    /\ ~mem.sim.on
    /\ Call("openfiles", openfiles(IOGroup), idx,
            [on |-> TRUE, what |-> what, t |-> idx, fresh |-> FALSE])

\* the model calculates the values of step t
Compute ==
    /\ mem.kind = "io" /\ ~mem.crashed
    /\ mem.sim.on /\ mem.sim.what = "save" /\ ~mem.sim.fresh
    /\ mem.sim.t \in SimSteps
    /\ mem' = [mem EXCEPT !.val = [n \in IONames |->
                                      Filled(mem.sim.t + 1, mem.length[n])],
                          !.sim.fresh = TRUE, !.did = "compute"]
    /\ UNCHANGED <<routine, model, fastcython, nogilAtImport, usecython,
                   skipdoctests, argv, clock, pyTime, pyx, dll, build, pc,
                   log, exc, calls, last, touched, lock, locking, written,
                   out>>

SaveData ==
    /\ mem.sim.on /\ mem.sim.what = "save" /\ mem.sim.fresh
    /\ Call("savedata", savedata(IOGroup, nogilAtImport), mem.sim.t,
            [mem.sim EXCEPT !.t = @ + 1, !.fresh = FALSE])

LoadData ==
    /\ mem.sim.on /\ mem.sim.what = "load" /\ mem.sim.t \in SimSteps
    /\ Call("loaddata", loaddata(IOGroup, nogilAtImport), mem.sim.t,
            [mem.sim EXCEPT !.t = @ + 1])

CloseFiles ==
    /\ mem.sim.on /\ ~mem.sim.fresh
    /\ Call("closefiles", closefiles(IOGroup), 0,
            [mem.sim EXCEPT !.on = FALSE])

(***************************************************************************)
(* Specifications                                                          *)
(***************************************************************************)
NoLast == [how |-> "none", step |-> "none", since |-> 0, began |-> 0]

NoOut == [kind |-> "none", exc |-> "none", lines |-> <<>>]

\* no instance of a generated class, no user routine
NoMem == [kind |-> "none"]

NoRoutine == [funcname |-> "none"]

\* what is the same at the start of every specification
Start ==
    /\ usecython = TRUE
    /\ argv = OrigArgv
    /\ clock = InitTime
    /\ build = [time |-> 0, dirs |-> <<<<>>>>, moved |-> <<0, 0>>]
    /\ pc = [p \in Callers |-> "idle"]
    /\ log = [p \in Callers |-> <<>>]
    /\ exc = [p \in Callers |-> NoExc]
    /\ calls = [p \in Callers |-> 0]
    /\ last = [p \in Callers |-> NoLast]
    /\ touched = 0
    /\ lock = 0
    /\ written = [n |-> 0, first |-> <<>>, same |-> TRUE]
    /\ out = NoOut

\* either nothing was built yet, or an earlier build left the generated
\* file and the compiled module, none of them older than the other
Built(t) ==
    /\ pyx = [exists |-> TRUE, mtime |-> t,
              lines |-> write(model, fastcython, nogilAtImport).lines]
    /\ dll = [exists |-> TRUE, mtime |-> t]

NeverBuilt == pyx = NoFile /\ dll = NoDll

\* one caller, who calls complete() time and again, while the source files
\* may be edited
Init ==
    /\ Start
    /\ mem = NoMem /\ routine = NoRoutine
    /\ model \in BuildModels
    /\ fastcython = FALSE
    /\ nogilAtImport = FALSE
    /\ skipdoctests \in BOOLEAN
    /\ locking = FALSE
    /\ pyTime \in [SourceFiles -> 0..InitTime]
    /\ (NeverBuilt \/ \E t \in 0..InitTime : Built(t))

Next ==
    \/ CompleteBegin(1)
    \/ Test1(1)
    \/ Write(1)
    \/ Compile(1)
    \/ Move(1)
    \/ Test2(1)
    \/ Return(1)
    \/ \E f \in SourceFiles : TouchSource(f)

Spec == Init /\ [][Next]_vars

\* two callers of complete() for the same model, with or without a lock
InitConc ==
    /\ Start
    /\ mem = NoMem /\ routine = NoRoutine
    /\ model = Descriptor({"states"}, <<1>>, FALSE)
    /\ fastcython = FALSE
    /\ nogilAtImport = FALSE
    /\ skipdoctests = TRUE
    /\ locking \in BOOLEAN
    /\ pyTime = [f \in SourceFiles |-> InitTime]
    /\ (NeverBuilt \/ \E t \in 0..InitTime : Built(t))

NextConc ==
    \E p \in Callers :
        \/ Acquire(p)
        \/ CompleteBegin(p)
        \/ Write(p)
        \/ Compile(p)
        \/ Move(p)
        \/ Return(p)

SpecConc == InitConc /\ [][NextConc]_vars

\* the generator applied to every descriptor within the bounds
InitGen ==
    /\ Start
    /\ mem = NoMem /\ routine = NoRoutine
    /\ model \in Descriptors
    /\ fastcython \in BOOLEAN
    /\ nogilAtImport \in BOOLEAN
    /\ skipdoctests = TRUE
    /\ locking = FALSE
    /\ pyTime = [f \in SourceFiles |-> 0]
    /\ NeverBuilt

NextGen ==
    \/ EmitParameters
    \/ EmitSequences
    \/ EmitDoit
    \/ EmitStandardFunctions
    \/ EmitNumericFunctions

SpecGen == InitGen /\ [][NextGen]_vars

\* simulation runs with an instance of a class of input sequences
InitIO ==
    /\ Start
    /\ routine = NoRoutine
    /\ \E nd \in RunDims : model = Descriptor({"inputs"}, nd, FALSE)
    /\ fastcython = FALSE
    /\ nogilAtImport = FALSE
    /\ skipdoctests = TRUE
    /\ locking = FALSE
    /\ pyTime = [f \in SourceFiles |-> 0]
    /\ NeverBuilt
    /\ \E disk \in [IONames -> BOOLEAN], ram \in [IONames -> BOOLEAN] :
          mem = NewIO(IOGroup, disk, ram)

NextIO ==
    \/ \E idx \in SimSteps, what \in {"load", "save"} : OpenFiles(idx, what)
    \/ Compute
    \/ SaveData
    \/ LoadData
    \/ CloseFiles

SpecIO == InitIO /\ [][NextIO]_vars

(***************************************************************************)
(* Claims about the staleness detector and complete()                      *)
(***************************************************************************)
BuildSteps == {"write", "compile", "move"}

\* caller p enters complete() in this step, which reads self.outdated
Queries(p) == pc[p] \in {"idle", "locked"} /\ pc'[p] \notin {"idle", "locked"}

\* the compiled module is missing or older than one of the source files
ArtifactStale ==
    \/ ~dll.exists
    \/ \E f \in SourceFiles : pyTime[f] > dll.mtime

\* what complete() and the options leave alone when nothing is to be built
Products == <<pyx, dll, build, usecython, fastcython, skipdoctests, argv>>

\* C1: whenever complete() asks the detector, it answers Stale exactly when
\* the compiled artifact is missing or a source file has a modification
\* time strictly greater than the artifact's, and Fresh otherwise.
C1_StaleIffArtifactOutdated ==
    [][\A p \in Callers :
          Queries(p) => (log'[p] = <<"stale">> <=> ArtifactStale)]_vars

\* C2: a complete() call that follows one in which translation, compilation
\* or relocation failed, with no source file changed since that one began,
\* finds Stale again.
C2_StaleAfterFailedBuild ==
    [][\A p \in Callers :
          ( /\ Queries(p)
            /\ last[p].how = "raised"
            /\ last[p].step \in BuildSteps
            /\ last[p].since = touched )
          => log'[p] = <<"stale">>]_vars

\* C3: a complete() call that finds Fresh runs no step at all: it returns
\* right after the query, and neither the query nor the return changes the
\* generated file, the compiled module, the build tree, the options or
\* sys.argv.
C3_FreshRunsNothing ==
    /\ [](\A p \in Callers :
             (log[p] # <<>> /\ Head(log[p]) = "fresh") => Len(log[p]) = 1)
    /\ [][\A p \in Callers :
             (log'[p] = <<"fresh">> /\ pc'[p] # pc[p])
             => /\ pc'[p] \in {"returned", "idle"}
                /\ UNCHANGED Products]_vars

\* a complete() call has found Fresh and is about to return
C3_Witness == pc[1] = "returned" /\ log[1] = <<"fresh">>

StepsOf(p) == SelectSeq(log[p], LAMBDA x : x \in BuildSteps)

IsPrefix(a, b) == Len(a) <= Len(b) /\ a = SubSeq(b, 1, Len(a))

\* C5: the steps of one doit() run in the order write, compile, move, each
\* at most once; the compiler is invoked only when the whole generated file
\* is written; the search starts only when the compilation has returned;
\* and once a step has raised, no further step of this invocation runs.
C5_Sequential ==
    \A p \in Callers :
        /\ IsPrefix(StepsOf(p), <<"write", "compile", "move">>)
        /\ pc[p] = "compile"
           => /\ Last(log[p]) = "write"
              /\ write(model, fastcython, nogilAtImport).exc = "none"
              /\ pyx.exists
              /\ pyx.lines = write(model, fastcython, nogilAtImport).lines
        /\ pc[p] = "move"
           => /\ Last(log[p]) = "compile"
              /\ build.time > pyx.mtime
        /\ exc[p] # NoExc => pc[p] \in {"raised", "idle"}
        /\ pc[p] = "raised" => exc[p] # NoExc

\* the compilation has failed, and the invocation is over without a search
C5_Witness ==
    /\ pc[1] = "raised" /\ exc[1].type = "CompileError"
    /\ StepsOf(1) = <<"write", "compile">>

\* caller p is between its staleness query and the end of its relocation
Building(p) == pc[p] \in {"test1", "write", "compile", "move"}

\* C6: complete() excludes nobody; callers that take one lock around
\* complete() are never two between query and end of relocation.
C6_LockSerializes ==
    locking => Cardinality({p \in Callers : Building(p)}) <= 1

\* without the lock, both callers have found Stale and are building
C6_Witness ==
    /\ ~locking
    /\ \A p \in Callers : Building(p) /\ Head(log[p]) = "stale"

(***************************************************************************)
(* Claims about movedll                                                    *)
(***************************************************************************)
\* the first file in the order of os.walk, buildpath itself included, that
\* passes the name test (<<0, 0>>: none)
FirstInTree(dirs) ==
    LET hits == {d \in DOMAIN dirs : FirstMatch(dirs[d]) # 0}
    IN  IF hits = {} THEN <<0, 0>>
        ELSE LET d == CHOOSE d \in hits : \A e \in hits : d <= e
             IN  <<d, FirstMatch(dirs[d])>>

\* C7: when no file of the build tree passes the name test, movedll ends
\* with an IOError whose message names buildpath, and moves nothing.
C7_NotFoundIsIOError ==
    \A p \in Callers :
        ( /\ pc[p] = "raised" /\ Last(log[p]) = "move"
          /\ FirstInTree(build.dirs) = <<0, 0>> )
        => /\ exc[p].type = "IOError"
           /\ buildpath \in exc[p].names
           /\ build.moved = <<0, 0>>

\* C8: when some file of the build tree passes the name test and the move
\* is not blocked, movedll has moved the first such file in the order of
\* the walk, which starts with buildpath itself, to the canonical path.
C8_FirstInWalkMoved ==
    \A p \in Callers :
        ( /\ log[p] # <<>> /\ Last(log[p]) = "move"
          /\ exc[p] # augmentexcmessage
          /\ FirstInTree(build.dirs) # <<0, 0>> )
        => /\ build.moved = FirstInTree(build.dirs)
           /\ dll.exists /\ dll.mtime = build.time

(***************************************************************************)
(* Claims about the generator                                              *)
(***************************************************************************)
\* the lines that declare the storage of the field `name`: its rank each
StorageRanks(lines, name) ==
    [i \in {j \in DOMAIN lines :
               /\ lines[j].fmt \in {"cdef public %s %s", "cdef double *%s",
                                    "cdef double **%s"}
               /\ Last(lines[j].args) = <<name>>} |->
        IF lines[i].fmt = "cdef public %s %s" THEN Rank(lines[i].args[1])
        ELSE IF lines[i].fmt = "cdef double *%s" THEN 0
        ELSE 1]

\* exactly one storage declaration per field, of the rank of the field
OnePerField(lines, groups) ==
    \A g \in DOMAIN groups : \A i \in DOMAIN groups[g].fields :
        LET ranks == StorageRanks(lines, groups[g].fields[i].name)
        IN  /\ Cardinality(DOMAIN ranks) = 1
            /\ \A k \in DOMAIN ranks : ranks[k] = groups[g].fields[i].NDIM

\* C9: for every model with fields of dimensionality 0 to 3 the declaration
\* emitter ends without error and has emitted one storage declaration per
\* field, of the rank of the field.
C9_OneDeclarationPerField ==
    /\ out.kind = "parameters"
       => out.exc = "none" /\ OnePerField(out.lines, model.parameters)
    /\ out.kind = "sequences"
       => out.exc = "none" /\ OnePerField(out.lines, model.sequences)

\* the stages of the per-step procedure in their order
Stages == <<"self.loaddata()", "self.update_inlets()", "self.solve()",
            "self.run()", "self.new2old()", "self.update_outlets()",
            "self.savedata()">>

\* whether the model declares what a stage stands for
Declares(m, stage) ==
    CASE stage = "self.loaddata()" -> HasSeqs(m, "inputs")
      [] stage = "self.update_inlets()" -> m.INLET_METHODS # <<>>
      [] stage = "self.solve()" -> hasattr(m, "solve")
      [] stage = "self.run()" -> ~hasattr(m, "solve")
      [] stage = "self.new2old()" ->
             ~hasattr(m, "solve") /\ HasSeqs(m, "states")
      [] stage = "self.update_outlets()" -> m.OUTLET_METHODS # <<>>
      [] stage = "self.savedata()" ->
             HasSeqs(m, "fluxes") \/ HasSeqs(m, "states")

\* C10: after its header and the assignment of idx_sim, the generated doit
\* holds exactly the stages the model declares, one line each, in the fixed
\* order, and no other line.
C10_StagesInOrder ==
    out.kind = "doit"
    => /\ out.exc = "none"
       /\ Len(out.lines) >= 2
       /\ out.lines[1].fmt = "cpdef inline void doit(self, int idx) %s:"
       /\ out.lines[2].fmt = "self.idx_sim = idx"
       /\ [i \in 1..(Len(out.lines) - 2) |-> out.lines[i + 2].fmt]
              = SelectSeq(Stages, LAMBDA stage : Declares(model, stage))
       /\ \A i \in 3..Len(out.lines) :
              out.lines[i].ind = 2 /\ out.lines[i].args = <<>>

\* a model with a solver and state sequences, without input sequences
C10_Witness ==
    /\ out.kind = "doit"
    /\ hasattr(model, "solve") /\ HasSeqs(model, "states")
    /\ ~HasSeqs(model, "inputs") /\ model.OUTLET_METHODS # <<>>

(***************************************************************************)
(* Loading and saving the series of a simulation run                       *)
(***************************************************************************)
\* the record of field n that starts at byte pos of its file
RecordAtPos(m, n, pos) ==
    [p \in 1..m.length[n] |-> m.disc[n][(pos \div 8) + p]]

\* everything of field n but the named parts is left alone by the step
SameBut(n, parts) ==
    /\ "val" \in parts \/ mem'.val[n] = mem.val[n]
    /\ "file" \in parts \/ mem'.file[n] = mem.file[n]
    /\ "disc" \in parts \/ mem'.disc[n] = mem.disc[n]
    /\ "array" \in parts \/ mem'.array[n] = mem.array[n]

\* one call of loaddata(idx) treats field n in exactly one of three ways
LoadsOne(n, idx) ==
    IF mem.disk[n]
    THEN /\ mem'.val[n] = RecordAtPos(mem, n, mem.file[n].pos)
         /\ mem'.file[n].pos = mem.file[n].pos + 8 * mem.length[n]
         /\ mem'.file[n].open
         /\ SameBut(n, {"val", "file"})
    ELSE IF mem.ram[n]
    THEN /\ \A p \in 1..mem.length[n] :
                mem'.val[n][p] = mem.array[n][idx + 1][p]
         /\ DOMAIN mem'.val[n] = 1..mem.length[n]
         /\ SameBut(n, {"val"})
    ELSE SameBut(n, {})

\* one call of savedata(idx) is the mirror image
SavesOne(n, idx) ==
    IF mem.disk[n]
    THEN /\ RecordAtPos(mem', n, mem.file[n].pos) = mem.val[n]
         /\ mem'.file[n].pos = mem.file[n].pos + 8 * mem.length[n]
         /\ mem'.file[n].open
         /\ \A p \in DOMAIN mem.disc[n] :
                \/ p \in ((mem.file[n].pos \div 8) + 1)
                            ..((mem.file[n].pos \div 8) + mem.length[n])
                \/ mem'.disc[n][p] = mem.disc[n][p]
         /\ Len(mem'.disc[n]) = Len(mem.disc[n])
         /\ SameBut(n, {"disc", "file"})
    ELSE IF mem.ram[n]
    THEN /\ \A p \in 1..mem.length[n] :
                mem'.array[n][idx + 1][p] = mem.val[n][p]
         /\ \A s \in 1..MaxSteps :
                s = idx + 1 \/ mem'.array[n][s] = mem.array[n][s]
         /\ SameBut(n, {"array"})
    ELSE SameBut(n, {})

\* C11: for each field, one call of the load routine does exactly one of:
\* in disk mode it reads one fixed-size record from the open file into the
\* field; otherwise in memory mode it copies every element of the buffer
\* entry of the step into the field; with neither mode the field is left
\* unchanged.  One call of the save routine is the mirror image.
C11_LoadSaveOneSource ==
    [][ /\ mem.kind = "io" /\ mem'.kind = "io"
        /\ mem'.did \in {"loaddata", "savedata"}
        /\ mem' # mem
        => /\ ~mem'.crashed
           /\ \A n \in IONames :
                  IF mem'.did = "loaddata" THEN LoadsOne(n, mem.sim.t)
                  ELSE SavesOne(n, mem.sim.t) ]_vars

\* a two-dimensional field in both modes was loaded at the last step, and
\* another run saved a field kept in memory only
C11_Witness ==
    /\ mem.kind = "io" /\ mem.did = "loaddata"
    /\ mem.sim.t = MaxSteps
    /\ \E n \in IONames :
           /\ mem.disk[n] /\ mem.ram[n] /\ Len(mem.shape[n]) = 2
           /\ mem.val[n] = Filled(MaxSteps, mem.length[n])
           /\ mem.array[n][MaxSteps] # mem.val[n]

\* C12: in disk mode, after the records of some steps were written through
\* the save routine and the files were closed, opening again at step 0 (or
\* at step i) and loading once per step returns at every step exactly the
\* values saved for that step.
C12_DiskRoundTrip ==
    [][ /\ mem.kind = "io" /\ mem'.kind = "io"
        /\ mem'.did = "loaddata" /\ mem' # mem
        => \A n \in IONames :
              mem.disk[n] /\ mem.saved[n][mem.sim.t] # <<>>
                  => mem'.val[n] = mem.saved[n][mem.sim.t] ]_vars

\* a run opened at a later step has loaded what an earlier run, opened at
\* step 0, saved for a field with more than one element
C12_Witness ==
    /\ mem.kind = "io" /\ mem.did = "loaddata"
    /\ mem.sim.t = MaxSteps
    /\ \E n \in IONames :
           /\ mem.disk[n] /\ mem.length[n] > 1
           /\ \A s \in SimSteps : mem.saved[n][s] # <<>>
           /\ mem.val[n] = mem.saved[n][MaxSteps - 1]

(***************************************************************************)
(* The pointer routines of the link sequences                              *)
(***************************************************************************)
\* the fields for which the emitted lines hold a statement of the format
Covered(lines, fmt) ==
    {lines[i].args[1][1] : i \in {j \in DOMAIN lines : lines[j].fmt = fmt}}

\* the fields of a group with the given number of dimensions
FieldsOfDim(group, ndim) ==
    {group.fields[i].name :
        i \in {j \in DOMAIN group.fields : group.fields[j].NDIM = ndim}}

\* the statement by which each pointer routine treats a field
PointerStatements ==
    [ setpointer0d |-> "self.%s = value.p_value",
      alloc |-> "self._%s_length_0 = length",
      dealloc |-> "PyMem_Free(self.%s)",
      setpointer1d |-> "self.%s[idx] = value.p_value" ]

\* C13: for every group of link fields the set-pointer routine covers
\* exactly the 0-dimensional fields of the group, and the allocate,
\* deallocate and set-pointer-1D routines cover exactly its 1-dimensional
\* fields, whatever the order of the fields of a mixed group.
C13_PointerRoutinesByDimension ==
    out.kind = "sequences" /\ out.exc = "none"
        => \A g \in DOMAIN model.sequences :
              LET group == model.sequences[g]
                  names == {group.fields[i].name : i \in DOMAIN group.fields}
              IN  IsLinkSequences(group)
                      => \A r \in DOMAIN PointerStatements :
                            Covered(out.lines, PointerStatements[r])
                                    \cap names
                                = FieldsOfDim(group,
                                              IF r = "setpointer0d" THEN 0
                                              ELSE 1)

(***************************************************************************)
(* An instance of a class of link sequences: the emitted alloc, dealloc    *)
(* and setpointer1d are called in any order                                *)
(***************************************************************************)
\* the groups that are instantiated hold 1-dimensional fields only (alloc
\* assigns a double** and a _length_0 to every field of its group)
LinkDims == {<<1>>, <<1, 1>>}

Lengths == {1, MaxLength}

Addresses == 1..MaxBlocks

\* what a build can do on freeing or writing through a pointer to memory
\* that is not allocated
Undefined == {"crash", "nothing", "corrupt"}

LinkGroup == model.sequences[1]

LinkNames == {LinkGroup.fields[i].name : i \in DOMAIN LinkGroup.fields}

\* the C attributes of a new instance are zero
NewLink(group) ==
    LET names == {group.fields[i].name : i \in DOMAIN group.fields}
    IN  [ kind |-> "link",
          ptr |-> [n \in names |-> 0],
          length_0 |-> [n \in names |-> 0],
          live |-> {}, size |-> [b \in Addresses |-> 0],
          crashed |-> FALSE, corrupt |-> FALSE,
          did |-> "new", freed |-> {}, again |-> {} ]

Fault(m, ub) ==
    CASE ub = "crash" -> [m EXCEPT !.crashed = TRUE]
      [] ub = "corrupt" -> [m EXCEPT !.corrupt = TRUE]
      [] OTHER -> m

\* PyMem_Malloc: a block at an address not in use, or NULL
PyMem_Malloc(m, n, count, addr) ==
    IF addr \in m.live THEN [m EXCEPT !.ptr[n] = 0]
    ELSE [m EXCEPT !.ptr[n] = addr, !.live = @ \cup {addr},
                   !.size[addr] = count]

\* PyMem_Free: nothing for NULL, the release of a block in use, undefined
\* for any other address; the pointer handed over is not changed
PyMem_Free(m, n, ub) ==
    LET p == m.ptr[n]
    IN  IF p = 0 THEN m
        ELSE IF p \in m.live
        THEN [m EXCEPT !.live = @ \ {p}, !.freed = @ \cup {p}]
        ELSE Fault([m EXCEPT !.again = @ \cup {p}], ub)

\* self.<n>[idx] = value.p_value
StorePointer(m, n, idx, ub) ==
    LET p == m.ptr[n]
    IN  IF p \in m.live /\ idx < m.size[p] THEN m ELSE Fault(m, ub)

\* the effect of one emitted line; name, length, idx are the arguments
LinkStatement(line, st, name, length, idx, addr, ub) ==
    LET a == line.args
        m == st.m
        Do(new) == IF st.on \/ line.ind = 2 THEN [st EXCEPT !.m = new]
                   ELSE st
    IN  CASE line.fmt = "if name == \"%s\":" ->
                 [st EXCEPT !.on = (name = a[1][1])]
          [] line.fmt = "self._%s_length_0 = length" ->
                 Do([m EXCEPT !.length_0[a[1][1]] = length])
          [] line.fmt = "self.%s = <double**> PyMem_Malloc(length * sizeof(double*))" ->
                 Do(PyMem_Malloc(m, a[1][1], length, addr))
          [] line.fmt = "PyMem_Free(self.%s)" ->
                 Do(PyMem_Free(m, a[1][1], ub))
          [] line.fmt = "self.%s[idx] = value.p_value" ->
                 Do(StorePointer(m, a[1][1], idx, ub))
          [] OTHER -> st

RECURSIVE RunLink(_, _, _, _, _, _, _)
RunLink(lines, st, name, length, idx, addr, ub) ==
    IF lines = <<>> \/ st.m.crashed THEN st.m
    ELSE RunLink(Tail(lines),
                 LinkStatement(Head(lines), st, name, length, idx, addr, ub),
                 name, length, idx, addr, ub)

\* one call of an emitted routine of the instance
CallLink(op, lines, name, length, idx, addr, ub) ==
    /\ mem.kind = "link" /\ ~mem.crashed
    /\ mem' = [RunLink(lines, [m |-> [mem EXCEPT !.again = {}], on |-> FALSE],
                       name, length, idx, addr, ub)
                  EXCEPT !.did = op]
    /\ UNCHANGED <<routine, model, fastcython, nogilAtImport, usecython,
                   skipdoctests, argv, clock, pyTime, pyx, dll, build, pc,
                   log, exc, calls, last, touched, lock, locking, written,
                   out>>

Alloc(name, length, addr) ==
    CallLink("alloc", alloc(LinkGroup), name, length, 0, addr, "nothing")

Dealloc(ub) ==
    CallLink("dealloc", dealloc(LinkGroup), "", 0, 0, 1, ub)

SetPointer1d(name, idx, ub) ==
    CallLink("setpointer1d", setpointer1d(LinkGroup), name, 0, idx, 1, ub)

InitLink ==
    /\ Start
    /\ routine = NoRoutine
    /\ \E nd \in LinkDims : model = Descriptor({"inlets"}, nd, FALSE)
    /\ fastcython = FALSE
    /\ nogilAtImport = FALSE
    /\ skipdoctests = TRUE
    /\ locking = FALSE
    /\ pyTime = [f \in SourceFiles |-> 0]
    /\ NeverBuilt
    /\ mem = NewLink(LinkGroup)

NextLink ==
    \/ \E name \in LinkNames, length \in Lengths, addr \in Addresses :
          Alloc(name, length, addr)
    \/ \E ub \in Undefined : Dealloc(ub)
    \/ \E name \in LinkNames, idx \in {0, MaxLength - 1}, ub \in Undefined :
          SetPointer1d(name, idx, ub)

\* an instance of a class of link sequences and the calls of its routines
SpecLink == InitLink /\ [][NextLink]_vars

\* C14: after alloc(name, 3) and dealloc() the instance holds no reference
\* to the released block, and a second dealloc() releases nothing a second
\* time.
C14_NoReferenceAfterDealloc ==
    mem.kind = "link" /\ mem.did = "dealloc"
        => /\ \A n \in LinkNames :
                  mem.length_0[n] = MaxLength
                      => mem.ptr[n] \notin mem.freed \ mem.live
           /\ mem.again = {}

(***************************************************************************)
(* An instance of the class Model of a numerical model: the emitted        *)
(* integrate_fluxes and calculate_error are called between the steps of    *)
(* the solver                                                              *)
(***************************************************************************)
\* the dimensionalities of the numeric flux fields of the models
NumDims == {<<>>, <<0>>, <<0, 0>>, <<1>>, <<0, 1>>, <<2>>, <<3>>}

FluxGroup == model.sequences[1]

FluxNames == {FluxGroup.fields[i].name : i \in DOMAIN FluxGroup.fields}

\* the entry of numconsts.a_coefs for method i, stage s and point j
a_coefs(i, s, j) == 1 + i + 2 * s + 4 * j

\* the k-th filling of an array: zeros, rising or falling values
Filling(k, length) ==
    [p \in 1..length |->
        CASE k = 0 -> 0
          [] k = 1 -> 2 + p
          [] OTHER -> IF p < 6 THEN 6 - p ELSE 0]

Fillings == 0..2

Abs(x) == IF x < 0 THEN 0 - x ELSE x

Max(a, b) == IF a >= b THEN a ELSE b

\* how an attribute named in an emitted line is spelled
Spelling(line) ==
    CASE line.fmt = "cdef public int _%s_length_%d" ->
             <<"_", line.args[1][1], "_", "length", "_", line.args[2][1]>>
      [] line.fmt = "for idx0 in range(self.fluxes._%s_length0):" ->
             <<"_", line.args[1][1], "_", "length", "0">>
      [] line.fmt = "for idx1 in range(self.fluxes._%s_length1):" ->
             <<"_", line.args[1][1], "_", "length", "1">>
      [] OTHER -> <<>>

\* the axis lengths the classes of the sequences declare
DeclaredLengths(lines) ==
    {Spelling(lines[i]) :
        i \in {j \in DOMAIN lines :
                  lines[j].fmt = "cdef public int _%s_length_%d"}}

\* the lines of a routine that look up an attribute no class declares
Undeclared(lines, declared) ==
    {i \in DOMAIN lines :
        /\ lines[i].fmt \in {"for idx0 in range(self.fluxes._%s_length0):",
                              "for idx1 in range(self.fluxes._%s_length1):"}
        /\ Spelling(lines[i]) \notin declared}

\* the variables of the subscript of the statements of a format
Subscript(fmt) ==
    CASE fmt \in {"%s[idx0] = 0.",
                  "%s[idx0] = %s[idx0] + %s*%s[jdx, idx0]",
                  "%s = max(%s, abs(%s[%s, idx0]-%s[%s-1, idx0]))"} ->
             <<"idx0">>
      [] fmt \in {"%s[idx0, idx1] = 0.",
                  "%s[idx0, idx1] = %s[idx0, idx1] + %s*%s[jdx, idx0, idx1]",
                  "%s = max(%s, abs(%s[%s, idx0, idx1]-%s[%s-1, idx0, idx1]))"} ->
             <<"idx0", "idx1">>
      [] OTHER -> <<>>

\* the instance before the first step of the solver
NewNum(group) ==
    LET fieldOf(n) == group.fields[CHOOSE i \in DOMAIN group.fields :
                                       group.fields[i].name = n]
        names == {group.fields[i].name : i \in DOMAIN group.fields}
        shape == [n \in names |->
                     [k \in 1..fieldOf(n).NDIM |-> AxisLength(k)]]
        length == [n \in names |-> Size(shape[n])]
    IN  [ kind |-> "num", shape |-> shape, length |-> length,
          val |-> [n \in names |-> Filling(0, length[n])],
          points |-> [n \in names |->
                         [j \in 1..MaxMethod |-> Filling(0, length[n])]],
          results |-> [n \in names |->
                          [i \in 1..(MaxMethod + 1) |->
                              Filling(0, length[n])]],
          error |-> 0, idx_method |-> 1, idx_stage |-> 0, dt |-> 1,
          failed |-> "none", did |-> "new", before |-> 0 ]

\* the value of self.fluxes.<n>[index] or of self.numvars.error
Get(m, target, index) ==
    IF target = <<"self.numvars.error">> THEN m.error
    ELSE m.val[target[2]][Flat(index, m.shape[target[2]])]

Put(m, target, index, x) ==
    IF target = <<"self.numvars.error">> THEN [m EXCEPT !.error = x]
    ELSE [m EXCEPT !.val[target[2]][Flat(index, m.shape[target[2]])] = x]

\* the values of the loop variables in the i-th pass of nested loops
RECURSIVE Passes(_)
Passes(loops) ==
    IF loops = <<>> THEN 1 ELSE Head(loops).bound * Passes(Tail(loops))

Pass(loops, i) ==
    [k \in DOMAIN loops |->
        (i \div Passes(SubSeq(loops, k + 1, Len(loops)))) % loops[k].bound]

\* one execution of an assignment, the loop variables having the values t
Assign(line, m, loops, t) ==
    LET a == line.args
        of(var) == t[CHOOSE k \in DOMAIN loops : loops[k].var = var]
        sub == Subscript(line.fmt)
        index == [k \in DOMAIN sub |-> of(sub[k])]
    IN  CASE line.fmt \in {"%s = 0.", "%s[idx0] = 0.",
                           "%s[idx0, idx1] = 0."} ->
                 Put(m, a[1], index, 0)
          [] line.fmt \in
                 {"%s = %s +%s*%s[jdx]",
                  "%s[idx0] = %s[idx0] + %s*%s[jdx, idx0]",
                  "%s[idx0, idx1] = %s[idx0, idx1] + %s*%s[jdx, idx0, idx1]"} ->
                 Put(m, a[1], index,
                     Get(m, a[2], index)
                     + m.dt * a_coefs(m.idx_method - 1, m.idx_stage,
                                      of("jdx"))
                         * m.points[a[4][2]][of("jdx") + 1]
                                   [Flat(index, m.shape[a[4][2]])])
          [] line.fmt \in
                 {"%s = max(%s, fabs(%s[%s]-%s[%s-1]))",
                  "%s = max(%s, abs(%s[%s, idx0]-%s[%s-1, idx0]))",
                  "%s = max(%s, abs(%s[%s, idx0, idx1]-%s[%s-1, idx0, idx1]))"} ->
                 Put(m, a[1], <<>>,
                     Max(Get(m, a[2], <<>>),
                         Abs(m.results[a[3][2]][m.idx_method + 1]
                                      [Flat(index, m.shape[a[3][2]])]
                             - m.results[a[5][2]][m.idx_method]
                                        [Flat(index, m.shape[a[5][2]])])))
          [] OTHER -> m

\* the passes i, i+1, ... of an assignment inside its loops
RECURSIVE AssignFrom(_, _, _, _)
AssignFrom(line, m, loops, i) ==
    IF i >= Passes(loops) THEN m
    ELSE AssignFrom(line, Assign(line, m, loops, Pass(loops, i)), loops, i + 1)

\* the effect of one emitted line.  An assignment is executed for all passes
\* of the loops around it when it is met, which for these routines (no
\* element is read by the assignments to another one) gives the values of
\* the execution in program order
NumStatement(line, st, declared) ==
    LET m == st.m
        outer == SelectSeq(st.loops, LAMBDA l : l.ind < line.ind)
        loop(var, bound) ==
            [st EXCEPT !.loops = Append(outer, [var |-> var, bound |-> bound,
                                                ind |-> line.ind])]
    IN  CASE line.fmt = "for jdx in range(self.numvars.idx_method):" ->
                 loop("jdx", m.idx_method)
          [] line.fmt \in {"for idx0 in range(self.fluxes._%s_length0):",
                           "for idx1 in range(self.fluxes._%s_length1):"} ->
                 IF Spelling(line) \in declared
                 THEN loop(IF Spelling(line)[5] = "0" THEN "idx0" ELSE "idx1",
                           m.shape[line.args[1][1]]
                                  [DigitValue(Spelling(line)[5]) + 1])
                 ELSE [st EXCEPT !.m.failed = "AttributeError"]
          [] line.fmt \in {"cdef int jdx", "cdef int jdx, idx0",
                           "cdef int jdx, idx0, idx1", "cdef int idx0",
                           "cdef int idx0, idx1"} -> st
          [] line.fmt = "cpdef inline void %s(self)%s" -> st
          [] OTHER -> [st EXCEPT !.m = AssignFrom(line, m, outer, 0),
                                 !.loops = outer]

RECURSIVE RunNum(_, _, _)
RunNum(lines, st, declared) ==
    IF lines = <<>> \/ st.m.failed # "none" THEN st.m
    ELSE RunNum(Tail(lines), NumStatement(Head(lines), st, declared),
                declared)

\* one call of an emitted routine: a routine whose generation raised, or
\* that looks up an undeclared attribute where the interpreter lock is
\* released, is not there to be called
CallNum(op, emitted) ==
    LET declared == DeclaredLengths(sequences(model, nogilAtImport))
        start == [mem EXCEPT !.failed = "none", !.did = op,
                             !.before = mem.error]
    IN  /\ mem.kind = "num"
        /\ mem' =
              IF emitted.exc # "none"
              THEN [start EXCEPT !.failed = emitted.exc]
              ELSE IF /\ emitted.lines # <<>>
                      /\ emitted.lines[1].args[2] = <<" nogil:">>
                      /\ Undeclared(emitted.lines, declared) # {}
              THEN [start EXCEPT !.failed = "CompileError"]
              ELSE RunNum(emitted.lines, [m |-> start, loops |-> <<>>],
                          declared)
        /\ UNCHANGED <<routine, model, fastcython, nogilAtImport, usecython,
                       skipdoctests, argv, clock, pyTime, pyx, dll, build,
                       pc, log, exc, calls, last, touched, lock, locking,
                       written, out>>

IntegrateFluxes ==
    /\ mem.did = "solve"
    /\ CallNum("integrate_fluxes", Result(integrate_fluxes(model, fastcython)))

CalculateError ==
    /\ mem.did \in {"solve", "integrate_fluxes"}
    /\ CallNum("calculate_error", Result(calculate_error(model, fastcython)))

\* a step of the solver: the method and stage it is at, the step size, and
\* the stage and result buffers of the fluxes, whose entries have the
\* fillings b, b+1, ...
Solve(b, method, stage, dt) ==
    LET order(n) == CHOOSE i \in DOMAIN FluxGroup.fields :
                        FluxGroup.fields[i].name = n
        fill(n, i) == Filling((b + i + order(n) - 1) % 3, mem.length[n])
    IN  /\ mem.kind = "num"
        /\ mem.did \in {"new", "calculate_error"}
        /\ mem' = [mem EXCEPT
                      !.idx_method = method, !.idx_stage = stage, !.dt = dt,
                      !.val = [n \in FluxNames |-> Filling(1, mem.length[n])],
                      !.points = [n \in FluxNames |->
                                     [j \in 1..MaxMethod |-> fill(n, j - 1)]],
                      !.results = [n \in FluxNames |->
                                      [i \in 1..(MaxMethod + 1) |->
                                          fill(n, i - 1)]],
                      !.failed = "none", !.did = "solve"]
        /\ UNCHANGED <<routine, model, fastcython, nogilAtImport, usecython,
                       skipdoctests, argv, clock, pyTime, pyx, dll, build,
                       pc, log, exc, calls, last, touched, lock, locking,
                       written, out>>

InitNum ==
    /\ Start
    /\ routine = NoRoutine
    /\ \E nd \in NumDims : model = Descriptor({"fluxes"}, nd, TRUE)
    /\ fastcython \in BOOLEAN
    /\ nogilAtImport = fastcython
    /\ skipdoctests = TRUE
    /\ locking = FALSE
    /\ pyTime = [f \in SourceFiles |-> 0]
    /\ NeverBuilt
    /\ mem = NewNum(FluxGroup)

NextNum ==
    \/ \E b \in Fillings, method \in 1..MaxMethod,
           stage \in 0..(MaxMethod - 1), dt \in 1..2 :
          Solve(b, method, stage, dt)
    \/ IntegrateFluxes
    \/ CalculateError

\* the numeric routines of the class Model at run time
SpecNum == InitNum /\ [][NextNum]_vars

\* |results[idx_method] - results[idx_method-1]| of element p of field n
Difference(n, p) ==
    Abs(mem.results[n][mem.idx_method + 1][p]
        - mem.results[n][mem.idx_method][p])

\* C15: calculate_error sets numvars.error to the maximum, over every
\* element of every numeric flux field, of the absolute difference of the
\* result buffer entries at idx_method and idx_method-1, and to 0 without
\* such a field; the error before the call has no influence.
C15_ErrorIsMaxDifference ==
    mem.kind = "num" /\ mem.did = "calculate_error"
        => /\ mem.failed = "none"
           /\ \A n \in FluxNames : \A p \in 1..mem.length[n] :
                  mem.error >= Difference(n, p)
           /\ \/ mem.error = 0
              \/ \E n \in FluxNames : \E p \in 1..mem.length[n] :
                    mem.error = Difference(n, p)

\* the weighted sum of the stage buffer entries of element p of field n
RECURSIVE WeightedSum(_, _, _)
WeightedSum(n, p, j) ==
    IF j < 0 THEN 0
    ELSE a_coefs(mem.idx_method - 1, mem.idx_stage, j) * mem.points[n][j + 1][p]
         + WeightedSum(n, p, j - 1)

\* C16: integrate_fluxes leaves in every element of every numeric flux
\* field the sum over the stages j < idx_method of
\* a_coefs[idx_method-1, idx_stage, j] times the stage buffer entry
\* points[j], multiplied by the step size dt.
C16_IntegralIsWeightedSum ==
    mem.kind = "num" /\ mem.did = "integrate_fluxes"
        => /\ mem.failed = "none"
           /\ \A n \in FluxNames : \A p \in 1..mem.length[n] :
                  mem.val[n][p]
                      = mem.dt * WeightedSum(n, p, mem.idx_method - 1)

(***************************************************************************)
(* Texts: a text is the sequence of its characters, where a name counts    *)
(* as one character                                                        *)
(***************************************************************************)
\* str.find: the first position from which sub occurs in s, or 0
Find(s, sub) ==
    LET at == {i \in 1..(Len(s) - Len(sub) + 1) :
                  SubSeq(s, i, i + Len(sub) - 1) = sub}
    IN  IF at = {} THEN 0 ELSE CHOOSE i \in at : \A j \in at : i <= j

\* sub in s
Occurs(s, sub) == Find(s, sub) # 0

\* str.replace(old, new)
RECURSIVE Replace(_, _, _)
Replace(s, old, new) ==
    LET i == Find(s, old)
    IN  IF i = 0 THEN s
        ELSE SubSeq(s, 1, i - 1) \o new
             \o Replace(SubSeq(s, i + Len(old), Len(s)), old, new)

\* str.split(sep)
RECURSIVE Split(_, _)
Split(s, sep) ==
    LET i == Find(s, sep)
    IN  IF i = 0 THEN <<s>>
        ELSE <<SubSeq(s, 1, i - 1)>>
             \o Split(SubSeq(s, i + Len(sep), Len(s)), sep)

\* str.count(char)
Count(s, char) == Cardinality({i \in DOMAIN s : s[i] = char})

Whitespace == {" ", "\n"}

\* str.lstrip(), str.rstrip(), str.strip()
RECURSIVE LStrip(_)
LStrip(s) ==
    IF s # <<>> /\ Head(s) \in Whitespace THEN LStrip(Tail(s)) ELSE s

RECURSIVE RStrip(_)
RStrip(s) ==
    IF s # <<>> /\ s[Len(s)] \in Whitespace
    THEN RStrip(SubSeq(s, 1, Len(s) - 1)) ELSE s

Strip(s) == LStrip(RStrip(s))

\* sep.join(parts)
RECURSIVE Join(_, _)
Join(parts, sep) ==
    IF parts = <<>> THEN <<>>
    ELSE IF Len(parts) = 1 THEN parts[1]
    ELSE parts[1] \o sep \o Join(Tail(parts), sep)

\* n * ' '
Spaces(n) == [i \in 1..n |-> " "]

\* str.splitlines()
SplitLines(code) ==
    LET parts == Split(code, <<"\n">>)
    IN  IF parts[Len(parts)] = <<>> THEN SubSeq(parts, 1, Len(parts) - 1)
        ELSE parts

(***************************************************************************)
(* FuncConverter.remove_linebreaks_within_equations                        *)
(***************************************************************************)
\* the loop over the characters: the value of the counter after each
\* character, the characters appended, and the least value of the counter
ScanBrackets(code, opening, closing) ==
    LET counter ==
            [i \in 0..Len(code) |->
                Cardinality({j \in 1..i : code[j] \in opening})
                - Cardinality({j \in 1..i : code[j] \in closing})]
        steps == [i \in DOMAIN code |->
                     [char |-> code[i], counter |-> counter[i]]]
        appended ==
            SelectSeq(steps,
                      LAMBDA step : ~(step.counter # 0 /\ step.char = "\n"))
    IN  [ chars |-> [i \in DOMAIN appended |-> appended[i].char],
          low |-> CHOOSE c \in {counter[i] : i \in DOMAIN counter} :
                      \A i \in DOMAIN counter : c <= counter[i] ]

\* variant: only round brackets are counted
remove_linebreaks_round_only(code) ==
    ScanBrackets(Replace(code, <<"\\", "\n">>, <<>>), {"("}, {")"}).chars

remove_linebreaks_within_equations(code) ==
    ScanBrackets(Replace(code, <<"\\", "\n">>, <<>>),
                 {"(", "[", "{"}, {")", "]", "}"}).chars

(***************************************************************************)
(* FuncConverter.remove_imath_operators                                    *)
(***************************************************************************)
\* variant: '*=' is tried before '**='
imath_operators_star_first ==
    << <<"+", "=">>, <<"-", "=">>, <<"*", "=">>, <<"*", "*", "=">>,
       <<"/", "/", "=">>, <<"/", "=">>, <<"%", "=">> >>

\* the operators in the order the loop tries them
imath_operators ==
    << <<"+", "=">>, <<"-", "=">>, <<"*", "*", "=">>, <<"*", "=">>,
       <<"/", "/", "=">>, <<"/", "=">>, <<"%", "=">> >>

\* the inner loop for one line
RECURSIVE ImathLine(_, _)
ImathLine(line, operators) ==
    IF operators = <<>> THEN line
    ELSE LET operator == Head(operators)
             sublines == Split(line, operator)
             indent == Count(line, " ") - Count(LStrip(line), " ")
         IN  IF Len(sublines) > 1
             THEN ImathLine(Spaces(indent) \o Strip(sublines[1])
                            \o <<" ", "=", " ">> \o Strip(sublines[1])
                            \o <<" ">>
                            \o SubSeq(operator, 1, Len(operator) - 1)
                            \o <<" ", "(">> \o Strip(sublines[2])
                            \o <<")">>,
                            Tail(operators))
             ELSE ImathLine(line, Tail(operators))

remove_imath_operators(lines) ==
    [idx \in DOMAIN lines |-> ImathLine(lines[idx], imath_operators)]

(***************************************************************************)
(* FuncConverter: collectornames ... pyxlines                              *)
(***************************************************************************)
\* name[:3] for the names of the groups
Shortcut ==
    [control |-> "con", derived |-> "der", inputs |-> "inp",
     fluxes |-> "flu", states |-> "sta", logs |-> "log", aides |-> "aid",
     inlets |-> "inl", outlets |-> "out", receivers |-> "rec",
     senders |-> "sen", old_states |-> "old", new_states |-> "new"]

InSeq(x, s) == \E i \in DOMAIN s : s[i] = x

collectornames(m, varnames) ==
    LET names(things) ==
            SelectSeq([i \in DOMAIN things |-> things[i].name],
                      LAMBDA name : InSeq(Shortcut[name], varnames))
    IN  names(m.parameters) \o names(m.sequences)
        \o (IF InSeq("old", varnames) THEN <<"old_states">> ELSE <<>>)
        \o (IF InSeq("new", varnames) THEN <<"new_states">> ELSE <<>>)

collectorshortcuts(m, varnames) ==
    [i \in DOMAIN collectornames(m, varnames) |->
        Shortcut[collectornames(m, varnames)[i]]]

untypedvarnames(m, varnames) ==
    SelectSeq(varnames,
              LAMBDA name : ~InSeq(name, collectorshortcuts(m, varnames)
                                         \o <<"self">>))

\* code.replace('%s.' % shortcut, 'self.%s.' % name) for every collector
RECURSIVE ReplaceShortcuts(_, _)
ReplaceShortcuts(code, names) ==
    IF names = <<>> THEN code
    ELSE ReplaceShortcuts(Replace(code, <<Shortcut[Head(names)], ".">>,
                                  <<"self", ".", Head(names), ".">>),
                          Tail(names))

\* code.split('"""')[::2]
RECURSIVE EverySecond(_)
EverySecond(parts) ==
    IF Len(parts) <= 2 THEN <<parts[1]>>
    ELSE <<parts[1]>> \o EverySecond(SubSeq(parts, 3, Len(parts)))

cleanlines(m, funcname, varnames, source) ==
    LET code1 == Join(EverySecond(Split(source, <<"\"\"\"">>)), <<"\n">>)
        code2 == Replace(code1, <<"modelutils", ".">>, <<>>)
        code3 == ReplaceShortcuts(code2, collectornames(m, varnames))
        code4 == remove_linebreaks_within_equations(code3)
        lines1 == remove_imath_operators(SplitLines(code4))
        lines2 == [lines1 EXCEPT ![1] =
                      <<"def", " ", funcname, "(", "self", ")", ":">>]
        lines3 == [i \in DOMAIN lines2 |-> Split(lines2[i], <<"#">>)[1]]
        lines4 == SelectSeq(lines3, LAMBDA l : ~InSeq("fastaccess", l))
    IN  SelectSeq([i \in DOMAIN lines4 |-> RStrip(lines4[i])],
                  LAMBDA l : l # <<>>)

untypedarguments(m, funcname, varnames, source) ==
    LET defline == cleanlines(m, funcname, varnames, source)[1]
    IN  SelectSeq(untypedvarnames(m, varnames),
                  LAMBDA name : \/ Occurs(defline, <<",", " ", name, ",">>)
                                \/ Occurs(defline, <<",", " ", name, ")">>))

untypedinternalvarnames(m, funcname, varnames, source) ==
    SelectSeq(untypedvarnames(m, varnames),
              LAMBDA name :
                  ~InSeq(name, untypedarguments(m, funcname, varnames, source)))

\* lines[0].replace(', %s ' % name, ', int %s ' % name), then the same with
\* ')' in place of the last blank, for every untyped argument
RECURSIVE TypeArguments(_, _)
TypeArguments(line, names) ==
    IF names = <<>> THEN line
    ELSE TypeArguments(
             Replace(Replace(line, <<",", " ", Head(names), " ">>,
                             <<",", " ", "int", " ", Head(names), " ">>),
                     <<",", " ", Head(names), ")">>,
                     <<",", " ", "int", " ", Head(names), ")">>),
             Tail(names))

pyxlines(m, funcname, varnames, source, atImport) ==
    LET clean == cleanlines(m, funcname, varnames, source)
        lines1 == [i \in DOMAIN clean |-> Spaces(4) \o clean[i]]
        head1 == Replace(lines1[1], <<"def", " ">>,
                         <<"cpdef", " ", "inline", " ", "void", " ">>)
        head2 == Replace(head1, <<")", ":">>,
                         <<")", " ">> \o (IF atImport THEN <<"nogil">>
                                          ELSE <<>>) \o <<":">>)
        head3 == TypeArguments(head2, untypedarguments(m, funcname, varnames,
                                                       source))
        internal == untypedinternalvarnames(m, funcname, varnames, source)
        lines2 == [lines1 EXCEPT ![1] = head3]
    IN  IF internal # <<>>
        THEN <<lines2[1]>>
             \o <<Spaces(8) \o <<"cdef", " ", "int", " ">>
                  \o Join([i \in DOMAIN internal |-> <<internal[i]>>],
                          <<",", " ">>)>>
             \o Tail(lines2)
        ELSE lines2

(***************************************************************************)
(* The texts FuncConverter is applied to                                   *)
(***************************************************************************)
Arithmetic ==
    {<<"+">>, <<"-">>, <<"*">>, <<"/">>, <<"/", "/">>, <<"%">>, <<"*", "*">>}

Targets == {<<"x">>, <<"flu", ".", "q">>}

Expressions ==
    { <<"1">>, <<"a", "*", "b">>, <<"-", "1">>,
      <<"a", " ", "*", "*", " ", "2">>, <<"a", " ", "/", "/", " ", "b">>,
      <<"(", "a", " ", "<", "=", " ", "b", ")">> }

\* <indent><target> <op>= <rhs>, a plain assignment when op is empty
Statement(s) ==
    Spaces(4 * s.level) \o s.target \o <<" ">> \o s.op \o <<"=", " ">>
    \o s.rhs

Statements ==
    [level : 0..MaxLevel, target : Targets, op : Arithmetic \cup {<<>>},
     rhs : Expressions]

\* a line that is no assignment
Condition ==
    [level |-> 0, target |-> <<"if", " ", "a", " ", ">", "=", " ", "b", ":">>,
     op |-> <<"none">>, rhs |-> <<>>]

TextOf(s) == IF s = Condition THEN s.target ELSE Statement(s)

\* the lists of lines remove_imath_operators is applied to
LineLists ==
    { [funcname |-> "calc_q", kind |-> "lines", parts |-> parts,
       lines |-> [i \in DOMAIN parts |-> TextOf(parts[i])],
       did |-> "new", out |-> <<>>] :
        parts \in {<<s>> : s \in Statements}
                  \cup {<<Condition, s>> : s \in Statements} }

BracketChars == {"(", ")", "[", "\n", "\\", "a"}

\* the text of the doctest of remove_linebreaks_within_equations
Doctest ==
    <<"asdf", " ", "=", " ", "\\", "\n", "(", "a", "\n", "+", "b", ")">>

\* the texts remove_linebreaks_within_equations is applied to
Codes ==
    { [funcname |-> "calc_q", kind |-> "code", code |-> code,
       did |-> "new", out |-> <<>>, low |-> 0] :
        code \in SeqsUpTo(BracketChars, MaxChars) \cup {Doctest} }

\* the statements of the bodies of the user routines: their text, the
\* shorthands they use and the local variables they assign
Bodies ==
    << [text |-> Spaces(4) \o <<"flu", ".", "q", " ", "=", " ",
                                "con", ".", "k", "\n">>,
        uses |-> <<"con", "flu">>, assigns |-> <<>>],
       [text |-> Spaces(4) \o <<"flu", ".", "q", " ", "+", "=", " ",
                                "con", ".", "k", "*", "2", "\n">>,
        uses |-> <<"con", "flu">>, assigns |-> <<>>],
       [text |-> Spaces(4) \o <<"flu", ".", "q", " ", "=", " ", "(",
                                "con", ".", "k", " ", "+", "\n">>
                 \o Spaces(12) \o <<"1", ")", "\n">>,
        uses |-> <<"con", "flu">>, assigns |-> <<>>],
       [text |-> Spaces(4) \o <<"x", " ", "=", " ", "modelutils", ".",
                                "exp", "(", "1", ")", " ", "\\", "\n">>
                 \o Spaces(8) \o <<"+", " ", "2", "\n">>,
        uses |-> <<>>, assigns |-> <<"x">>],
       [text |-> Spaces(4) \o <<"x", " ", "=", " ", "1", " ", " ", "#",
                                " ", "see", " ", "(", "3", "\n">>,
        uses |-> <<>>, assigns |-> <<"x">>],
       [text |-> Spaces(4) \o <<"aid", ".", "v", " ", "=", " ",
                                "flu", ".", "q", "\n">>,
        uses |-> <<"aid", "flu">>, assigns |-> <<>>] >>

\* the group a shorthand is taken from in the routines
GroupPath ==
    [con |-> <<"self", ".", "parameters", ".", "control">>,
     flu |-> <<"self", ".", "sequences", ".", "fluxes">>,
     aid |-> <<"self", ".", "sequences", ".", "aides">>]

\* the members of a sequence without repetition, in the order of their
\* first occurrence
RECURSIVE Unique(_)
Unique(s) ==
    IF s = <<>> THEN <<>>
    ELSE LET front == Unique(SubSeq(s, 1, Len(s) - 1))
         IN  IF InSeq(s[Len(s)], front) THEN front
             ELSE Append(front, s[Len(s)])

\* a user routine with the given arguments and statements: its source and
\* the names of its code object (the arguments first, then the local
\* variables in the order they are assigned)
UserRoutine(argnames, body) ==
    LET uses == Unique(Flatten([i \in DOMAIN body |-> Bodies[body[i]].uses]))
        assigns ==
            Unique(Flatten([i \in DOMAIN body |-> Bodies[body[i]].assigns]))
    IN  [ funcname |-> "calc_q", kind |-> "function",
          shorthands |-> uses,
          argnames |-> argnames,
          varnames |-> <<"self">> \o argnames \o uses \o assigns,
          code |->
              <<"def", " ", "calc_q_v1", "(", "self">>
              \o Flatten([i \in DOMAIN argnames |->
                              <<",", " ", argnames[i]>>])
              \o <<")", ":", "\n">>
              \o Spaces(4) \o <<"\"\"\"", "Calculate", " ", "q", ".",
                                 "\"\"\"", "\n">>
              \o Flatten([i \in DOMAIN uses |->
                     Spaces(4) \o <<uses[i], " ", "=", " ">>
                     \o GroupPath[uses[i]]
                     \o <<".", "fastaccess", "\n">>])
              \o Flatten([i \in DOMAIN body |-> Bodies[body[i]].text]),
          did |-> "new", out |-> <<>> ]

UserRoutines ==
    { UserRoutine(argnames, body) :
        argnames \in {<<>>, <<"idx">>},
        body \in SeqsUpTo(DOMAIN Bodies, MaxStatements) \ {<<>>} }

(***************************************************************************)
(* FuncConverter applied to the texts                                      *)
(***************************************************************************)
Converted(new) ==
    /\ routine.did = "new"
    /\ routine' = new
    /\ UNCHANGED <<mem, model, fastcython, nogilAtImport, usecython,
                   skipdoctests, argv, clock, pyTime, pyx, dll, build, pc,
                   log, exc, calls, last, touched, lock, locking, written,
                   out>>

RemoveImathOperators ==
    /\ routine.kind = "lines"
    /\ Converted([routine EXCEPT
                     !.did = "remove_imath_operators",
                     !.out = remove_imath_operators(routine.lines)])

RemoveLinebreaks ==
    /\ routine.kind = "code"
    /\ Converted([routine EXCEPT
                     !.did = "remove_linebreaks_within_equations",
                     !.out = remove_linebreaks_within_equations(routine.code),
                     !.low = ScanBrackets(Replace(routine.code,
                                                  <<"\\", "\n">>, <<>>),
                                          {"(", "[", "{"},
                                          {")", "]", "}"}).low])

Pyxlines ==
    /\ routine.kind = "function"
    /\ Converted([routine EXCEPT
                     !.did = "pyxlines",
                     !.out = pyxlines(model, routine.funcname,
                                      routine.varnames, routine.code,
                                      nogilAtImport)])

InitConv ==
    /\ Start
    /\ mem = NoMem
    /\ model = Descriptor({"fluxes"}, <<0>>, FALSE)
    /\ fastcython \in BOOLEAN
    /\ nogilAtImport = fastcython
    /\ skipdoctests = TRUE
    /\ locking = FALSE
    /\ pyTime = [f \in SourceFiles |-> 0]
    /\ NeverBuilt
    /\ routine \in LineLists \cup Codes \cup UserRoutines

NextConv ==
    \/ RemoveImathOperators
    \/ RemoveLinebreaks
    \/ Pyxlines

\* FuncConverter and its static methods applied to texts
SpecConv == InitConv /\ [][NextConv]_vars

(***************************************************************************)
(* Claims on FuncConverter                                                 *)
(***************************************************************************)
\* <indent><target> = <target> <op> (<rhs>)
Rewritten(s) ==
    Spaces(4 * s.level) \o s.target \o <<" ", "=", " ">> \o s.target
    \o <<" ">> \o s.op \o <<" ", "(">> \o s.rhs \o <<")">>

\* C17: remove_imath_operators replaces every line of the form
\* <indent><target> <op>= <rhs>, for the operators +=, -=, *=, /=, //=, %=
\* and **=, by <indent><target> = <target> <op> (<rhs>) with the same
\* indentation; afterwards no line contains one of these operators, and
\* the lines without one are unchanged
C17_CompoundAssignmentRewrite ==
    (routine.kind = "lines" /\ routine.did = "remove_imath_operators")
    => /\ Len(routine.out) = Len(routine.lines)
       /\ \A i \in DOMAIN routine.parts :
              routine.out[i] = IF routine.parts[i].op \in Arithmetic
                               THEN Rewritten(routine.parts[i])
                               ELSE routine.lines[i]
       /\ \A i \in DOMAIN routine.out : \A op \in Arithmetic :
              ~Occurs(routine.out[i], op \o <<"=">>)

\* an indented line with **= is rewritten and the line before it, which
\* holds a comparison, is unchanged
C17_Witness ==
    /\ routine.kind = "lines"
    /\ routine.did = "remove_imath_operators"
    /\ Len(routine.parts) = 2
    /\ routine.parts[2].op = <<"*", "*">>
    /\ routine.parts[2].level >= 1
    /\ routine.parts[2].rhs = <<"a", " ", "/", "/", " ", "b">>
    /\ routine.out[2] = Rewritten(routine.parts[2])
    /\ routine.out[1] = routine.lines[1]

\* the bracket depth after the i-th character of code
Depth(code, i) ==
    Cardinality({j \in 1..i : code[j] \in {"(", "[", "{"}})
    - Cardinality({j \in 1..i : code[j] \in {")", "]", "}"}})

\* the i-th character belongs to a backslash-newline continuation
Continuation(code, i) ==
    \/ code[i] = "\\" /\ i < Len(code) /\ code[i + 1] = "\n"
    \/ code[i] = "\n" /\ i > 1 /\ code[i - 1] = "\\"

\* the characters of code at the positions that satisfy Holds, in their order
Positions(code, Holds(_)) ==
    LET at == SelectSeq([i \in DOMAIN code |-> i], Holds)
    IN  [k \in DOMAIN at |-> code[at[k]]]

\* code without the continuations and the newlines within brackets
Joined(code) ==
    Positions(code, LAMBDA i : /\ ~Continuation(code, i)
                               /\ ~(code[i] = "\n" /\ Depth(code, i) > 0))

\* code without the continuations and all newlines
Unbroken(code) ==
    Positions(code, LAMBDA i : ~Continuation(code, i) /\ code[i] # "\n")

\* text without its newlines
NoNewlines(text) == SelectSeq(text, LAMBDA char : char # "\n")

\* the brackets of code are balanced: the depth is never negative and ends
\* at zero
Balanced(code) ==
    /\ \A i \in DOMAIN code : Depth(code, i) >= 0
    /\ Depth(code, Len(code)) = 0

\* C18: remove_linebreaks_within_equations removes every newline at a
\* bracket depth greater than zero and every backslash-newline, keeps the
\* newlines at depth zero and all other characters in their order; for
\* balanced input the depth is never negative; the text of the doctest
\* becomes the one line asdf = (a+b)
C18_LinebreaksWithinEquations ==
    (routine.kind = "code"
     /\ routine.did = "remove_linebreaks_within_equations")
    => /\ (\A i \in DOMAIN routine.code : Depth(routine.code, i) >= 0)
              => routine.out = Joined(routine.code)
       /\ NoNewlines(routine.out) = Unbroken(routine.code)
       /\ Balanced(routine.code) => routine.low >= 0
       /\ routine.code = Doctest
              => routine.out
                     = <<"asdf", " ", "=", " ", "(", "a", "+", "b", ")">>

\* a newline within square brackets is removed and one at depth zero kept
C18_Witness ==
    /\ routine.kind = "code"
    /\ routine.did = "remove_linebreaks_within_equations"
    /\ routine.code = <<"[", "\n", ")", "\n">>
    /\ routine.out = <<"[", ")", "\n">>

\* C19: when the source of a user routine has unbalanced brackets, its
\* translation stops with an error and no text is emitted for the routine
C19_UnbalancedBracketsStop ==
    (routine.kind = "function" /\ routine.did = "pyxlines"
     /\ ~Balanced(routine.code))
    => routine.out = <<>>

\* the shorthands of the routine that belong to no group of the model
Unresolved(m, shorthands) ==
    {shorthands[i] : i \in DOMAIN shorthands}
    \ ({Shortcut[m.parameters[i].name] : i \in DOMAIN m.parameters}
       \cup {Shortcut[m.sequences[i].name] : i \in DOMAIN m.sequences}
       \cup {"old", "new"})

\* C20: when a user routine uses a shorthand that matches no group of the
\* model and is not old or new, its translation stops with an error: no
\* text is emitted that still contains the shorthand or declares it as an
\* integer local variable
C20_UnresolvedShorthandStop ==
    (routine.kind = "function" /\ routine.did = "pyxlines"
     /\ Unresolved(model, routine.shorthands) # {})
    => /\ routine.out = <<>>
       /\ \A i \in DOMAIN routine.out :
              \A name \in Unresolved(model, routine.shorthands) :
                  ~InSeq(name, routine.out[i])

(***************************************************************************)
(* Claims on the performance option                                        *)
(***************************************************************************)
\* the headers of the routines that may release the interpreter lock
EligibleHeaders ==
    {"cpdef inline void %s(self)%s",
     "cpdef inline void loaddata(self, int idx) %s:",
     "cpdef inline void savedata(self, int idx) %s:",
     "cpdef inline void doit(self, int idx) %s:"}

\* the header line marks its routine nogil
MarkedNogil(line) ==
    line.args[Len(line.args)] \in {<<" nogil">>, <<" nogil:">>}

\* C21: what the generator emits is consistent with the performance option
\* in force when it is emitted, also when the option was changed after the
\* module was loaded: every eligible routine is marked nogil in performance
\* mode and none is in safety mode
C21_UnitConsistentWithOption ==
    out.kind # "none"
    => \A i \in DOMAIN out.lines :
           out.lines[i].fmt \in EligibleHeaders
           => (MarkedNogil(out.lines[i]) <=> fastcython)

(***************************************************************************)
(* Claims on the numeric scaffolding                                       *)
(***************************************************************************)
\* the field a formatted reference names: its group, its sequence and the
\* spelling of what follows the name of the sequence
Referenced(arg) ==
    IF arg = <<>> THEN {}
    ELSE CASE arg[1] = "self.%s._%s_" ->
                  {[group |-> arg[2], name |-> arg[3], what |-> <<arg[4]>>]}
           [] arg[1] = "self.fluxes._%s_points" ->
                  {[group |-> "fluxes", name |-> arg[2],
                    what |-> <<"points">>]}
           [] arg[1] = "self.fluxes._%s_results" ->
                  {[group |-> "fluxes", name |-> arg[2],
                    what |-> <<"results">>]}
           [] arg[1] = "self.fluxes._%s_sum" ->
                  {[group |-> "fluxes", name |-> arg[2], what |-> <<"sum">>]}
           [] OTHER -> {}

\* the buffers and length counters an emitted line reads or writes
Touched(line) ==
    CASE line.fmt = "for idx0 in range(self.%s._%s_length0):" ->
             {[group |-> line.args[1][1], name |-> line.args[2][1],
               what |-> <<"length", "0">>]}
      [] line.fmt = "for idx0 in range(self.fluxes._%s_length0):" ->
             {[group |-> "fluxes", name |-> line.args[1][1],
               what |-> <<"length", "0">>]}
      [] line.fmt = "for idx1 in range(self.fluxes._%s_length1):" ->
             {[group |-> "fluxes", name |-> line.args[1][1],
               what |-> <<"length", "1">>]}
      [] OTHER -> UNION {Referenced(line.args[j]) : j \in DOMAIN line.args}

\* the buffers and length counters the class of a group declares
DeclaredBy(subseqs) ==
    LET lines == Flatten([i \in DOMAIN subseqs.fields |->
                             SequenceLines(subseqs, subseqs.fields[i])])
        field(line) ==
            CASE line.fmt = "cdef public int _%s_length_%d" ->
                     {[group |-> subseqs.name, name |-> line.args[1][1],
                       what |-> <<"length", "_", line.args[2][1]>>]}
              [] line.fmt = "cdef public %s _%s_points" ->
                     {[group |-> subseqs.name, name |-> line.args[2][1],
                       what |-> <<"points">>]}
              [] line.fmt = "cdef public %s _%s_results" ->
                     {[group |-> subseqs.name, name |-> line.args[2][1],
                       what |-> <<"results">>]}
              [] line.fmt = "cdef public %s _%s_sum" ->
                     {[group |-> subseqs.name, name |-> line.args[2][1],
                       what |-> <<"sum">>]}
              [] OTHER -> {}
    IN  UNION {field(lines[i]) : i \in DOMAIN lines}

\* C28: every stage buffer, result buffer, sum accumulator and axis length
\* counter that an emitted numeric routine reads or writes for a sequence
\* is declared for that sequence, under the same name, by the class the
\* generator emits for the group of the sequence
C28_ScaffoldingFieldsDeclared ==
    out.kind = "modelnumericfunctions"
    => \A i \in DOMAIN out.lines :
           Touched(out.lines[i])
               \subseteq UNION {DeclaredBy(model.sequences[g]) :
                                   g \in DOMAIN model.sequences}

(***************************************************************************)
(* Claims on the typing of arguments and local variables                   *)
(***************************************************************************)
\* the local variables of the routine that are neither arguments nor
\* shorthands of groups
PlainLocals(r) ==
    SelectSeq(r.varnames,
              LAMBDA name : /\ name # "self"
                            /\ ~InSeq(name, r.argnames)
                            /\ ~InSeq(name, r.shorthands))

\* the line that declares the given names as integers
Declaration(names) ==
    Spaces(8) \o <<"cdef", " ", "int", " ">>
    \o Join([i \in DOMAIN names |-> <<names[i]>>], <<",", " ">>)

\* C24: every argument of a user routine other than self is kept in the
\* header of the emitted routine and typed as integer there; the remaining
\* untyped local variables are declared as integers in one cdef line
\* directly after the header; shorthands of groups and self get no
\* declaration
C24_ArgumentsAndLocalsTyped ==
    (routine.kind = "function" /\ routine.did = "pyxlines"
     /\ Balanced(routine.code)
     /\ Unresolved(model, routine.shorthands) = {})
    => /\ \A i \in DOMAIN routine.argnames :
              Occurs(routine.out[1],
                     <<",", " ", "int", " ", routine.argnames[i]>>)
       /\ \A i \in DOMAIN routine.out :
              Occurs(routine.out[i], <<"cdef", " ", "int">>)
              => /\ i = 2
                 /\ routine.out[i] = Declaration(PlainLocals(routine))

(***************************************************************************)
(* Claims on the argument vector of the process                            *)
(***************************************************************************)
\* C29: compile_ leaves sys.argv as it was before the call, when the
\* compilation returns and when it raises
C29_ArgvRestored ==
    [][pc[1] = "compile" => argv' = argv]_vars

(***************************************************************************)
(* calibtools: Rule and its subclasses Replace, Add, Multiply              *)
(***************************************************************************)
\* the values of calibration parameters, boundaries and results
Values == 0..MaxValue

\* the elements whose control parameters a rule targets
Elements == {1, 2}

RuleKinds ==
    { [type |-> "Replace", adaptor |-> "None"],
      [type |-> "Replace", adaptor |-> "SumAdaptor"],
      [type |-> "Replace", adaptor |-> "FactorAdaptor"],
      [type |-> "Add", adaptor |-> "None"],
      [type |-> "Multiply", adaptor |-> "None"] }

\* variant: only the upper boundary is respected
value_setter_upper_only(lower, upper, value) ==
    IF lower <= value /\ value <= upper THEN value ELSE Min(value, upper)

\* the setter of Rule.value: what is stored for the given value
value_setter(lower, upper, value) ==
    IF lower <= value /\ value <= upper THEN value
    ELSE Min(Max(value, lower), upper)

\* parameter(value) under the parameter step of the rule: the value is
\* stored in units of the simulation step, timefactor of them making one
\* parameter step
parameter_call(timefactor, value) == value * timefactor

\* par.revert_timefactor(par.value)
revert_timefactor(timefactor, value) == value \div timefactor

\* Rule._get_original_parameter_values
get_original_parameter_values(timefactor, pars) ==
    [e \in Elements |-> revert_timefactor(timefactor, pars[e])]

\* SumAdaptor.__call__ for the rule and one further rule, and
\* FactorAdaptor.__call__ without a mask
adaptor_call(r, e) ==
    IF r.adaptor = "SumAdaptor"
    THEN parameter_call(r.timefactor, r.value + r.other)
    ELSE r.value * r.reference[e]

Replace_apply_value(r) ==
    [e \in Elements |->
        IF r.adaptor # "None" THEN adaptor_call(r, e)
        ELSE parameter_call(r.timefactor, r.value)]

\* variant: the delta is added to the current values of the parameters
Add_apply_value_current(r) ==
    [e \in Elements |->
        parameter_call(r.timefactor,
                       r.value + revert_timefactor(r.timefactor, r.pars[e]))]

Add_apply_value(r) ==
    [e \in Elements |->
        parameter_call(r.timefactor, r.value + r.original[e])]

Multiply_apply_value(r) ==
    [e \in Elements |->
        parameter_call(r.timefactor, r.value * r.original[e])]

apply_value(r) ==
    CASE r.type = "Replace" -> Replace_apply_value(r)
      [] r.type = "Add" -> Add_apply_value(r)
      [] r.type = "Multiply" -> Multiply_apply_value(r)

\* variant: the original values are stored without the time factor
reset_parameters_raw(r) ==
    [e \in Elements |-> r.original[e]]

\* Rule.reset_parameters
reset_parameters(r) ==
    [e \in Elements |-> parameter_call(r.timefactor, r.original[e])]

\* Rule.__init__ for parameters with the given values; given, warned, did,
\* applied, changed and initial record what the calls were given and did
NewRule(kind, lower, upper, value, timefactor, warntrim, pars) ==
    [ kind |-> "rule", type |-> kind.type, adaptor |-> kind.adaptor,
      lower |-> lower, upper |-> upper,
      value |-> value_setter(lower, upper, value),
      timefactor |-> timefactor,
      original |-> get_original_parameter_values(timefactor, pars),
      pars |-> pars,
      reference |-> [e \in Elements |-> e + 2], other |-> 1,
      warntrim |-> warntrim,
      warned |-> warntrim /\ ~(lower <= value /\ value <= upper),
      given |-> value, did |-> "value", applied |-> 0, changed |-> FALSE,
      initial |-> pars ]

RuleCall(new) ==
    /\ mem.kind = "rule"
    /\ mem' = new
    /\ UNCHANGED <<routine, model, fastcython, nogilAtImport, usecython,
                   skipdoctests, argv, clock, pyTime, pyx, dll, build, pc,
                   log, exc, calls, last, touched, lock, locking, written,
                   out>>

\* rule.value = value
SetValue(value) ==
    RuleCall([mem EXCEPT
                 !.value = value_setter(mem.lower, mem.upper, value),
                 !.warned = mem.warntrim
                            /\ ~(mem.lower <= value /\ value <= mem.upper),
                 !.given = value, !.did = "value", !.applied = 0])

\* rule.lower = lower
SetLower(lower) ==
    /\ lower <= mem.upper
    /\ lower # mem.lower
    /\ RuleCall([mem EXCEPT !.lower = lower, !.did = "lower",
                            !.applied = 0])

\* rule.upper = upper
SetUpper(upper) ==
    /\ mem.lower <= upper
    /\ upper # mem.upper
    /\ RuleCall([mem EXCEPT !.upper = upper, !.did = "upper",
                            !.applied = 0])

\* rule.apply_value()
ApplyValue ==
    /\ mem.applied < MaxApply
    /\ RuleCall([mem EXCEPT
                    !.pars = apply_value(mem),
                    !.did = "apply_value",
                    !.applied = mem.applied + 1,
                    !.changed = mem.changed
                                \/ apply_value(mem) # mem.initial])

\* rule.reset_parameters()
ResetParameters ==
    /\ mem.did # "reset_parameters"
    /\ RuleCall([mem EXCEPT !.pars = reset_parameters(mem),
                            !.did = "reset_parameters", !.applied = 0])

InitRule ==
    /\ Start
    /\ routine = NoRoutine
    /\ model = Descriptor({"fluxes"}, <<0>>, FALSE)
    /\ fastcython = FALSE
    /\ nogilAtImport = FALSE
    /\ skipdoctests = TRUE
    /\ locking = FALSE
    /\ pyTime = [f \in SourceFiles |-> 0]
    /\ NeverBuilt
    /\ \E kind \in RuleKinds, lower \in Values, upper \in Values,
          value \in Values, timefactor \in 1..2, warntrim \in BOOLEAN :
          /\ lower <= upper
          /\ mem = NewRule(kind, lower, upper, value, timefactor, warntrim,
                           [e \in Elements |-> 2 * e])

NextRule ==
    \/ \E value \in Values : SetValue(value)
    \/ \E lower \in Values : SetLower(lower)
    \/ \E upper \in Values : SetUpper(upper)
    \/ ApplyValue
    \/ ResetParameters

\* a rule and the parameters it targets
SpecRule == InitRule /\ [][NextRule]_vars

(***************************************************************************)
(* Claims on Rule                                                          *)
(***************************************************************************)
\* C22: right after an assignment to Rule.value of a rule with lower <=
\* upper, a given value within the boundaries is stored unchanged, a value
\* below lower is stored as lower and one above upper as upper, so that
\* lower <= value <= upper; a warning is emitted on trimming only when
\* option warntrim is enabled
C22_ValueWithinBoundaries ==
    (mem.kind = "rule" /\ mem.did = "value" /\ mem.lower <= mem.upper)
    => /\ mem.lower <= mem.value /\ mem.value <= mem.upper
       /\ mem.value = IF mem.given < mem.lower THEN mem.lower
                      ELSE IF mem.given > mem.upper THEN mem.upper
                      ELSE mem.given
       /\ mem.warned => (mem.warntrim /\ mem.value # mem.given)

\* a value below the lower boundary was given and trimmed without warning
C22_Witness ==
    /\ mem.kind = "rule"
    /\ mem.did = "value"
    /\ mem.given < mem.lower
    /\ mem.value = mem.lower
    /\ ~mem.warntrim /\ ~mem.warned

C25_AppliedToOriginal ==
    (mem.kind = "rule" /\ mem.did = "apply_value" /\ mem.applied >= 1)
    => /\ mem.type = "Add"
          => \A e \in Elements :
                 revert_timefactor(mem.timefactor, mem.pars[e])
                     = revert_timefactor(mem.timefactor, mem.initial[e])
                       + mem.value
       /\ mem.type = "Multiply"
          => \A e \in Elements :
                 revert_timefactor(mem.timefactor, mem.pars[e])
                     = revert_timefactor(mem.timefactor, mem.initial[e])
                       * mem.value

\* an Add rule has applied the same positive value twice in a row
C25_Witness ==
    /\ mem.kind = "rule"
    /\ mem.did = "apply_value"
    /\ mem.applied = 2
    /\ mem.type = "Add"
    /\ mem.value > 0
    /\ \A e \in Elements :
           mem.pars[e] = mem.initial[e] + mem.value * mem.timefactor

\* C30: lower <= value <= upper holds for a rule created with lower <=
\* upper in every state reached by assignments to value, lower and upper
\* that keep lower <= upper
C30_AlwaysWithinBoundaries ==
    mem.kind = "rule"
    => (mem.lower <= mem.value /\ mem.value <= mem.upper)

(***************************************************************************)
(* calibtools: CalibrationInterface                                        *)
(***************************************************************************)
\* the rules handed to the interface: two different rules share name "fc"
RuleObjects ==
    { [name |-> "fc", elements |-> {1}, lower |-> 0, upper |-> MaxValue,
       parameterstep |-> "1d", value |-> 0],
      [name |-> "fc", elements |-> {2}, lower |-> 1, upper |-> MaxValue,
       parameterstep |-> "1d", value |-> 1],
      [name |-> "damp", elements |-> {2, 3}, lower |-> 0, upper |-> 1,
       parameterstep |-> "1d", value |-> 0] }

RuleNames == {"fc", "damp"}

NoRule == [name |-> "None"]

\* the names remove_rules is called with; no rule is called "beta"
RemovedNames == RuleNames \cup {"beta"}

\* CalibrationInterface.names
names(rules) == {n \in RuleNames : rules[n] # NoRule}

\* devicetools.Elements of all handled rules, added up
update_elements_when_deleting_a_rule(rules) ==
    UNION {rules[n].elements : n \in names(rules)}

\* state of the interface after add_rules(*rules)
RECURSIVE add_rules(_, _)
add_rules(ci, rules) ==
    IF rules = <<>> THEN ci
    ELSE add_rules([ci EXCEPT
                       !.rules[Head(rules).name] = Head(rules),
                       !.elements = ci.elements \cup Head(rules).elements],
                   Tail(rules))

\* state of the interface after remove_rules(*rulenames); an unknown name
\* ends the call with a RuntimeError
RECURSIVE remove_rules(_, _)
remove_rules(ci, rulenames) ==
    IF rulenames = <<>>
    THEN [ci EXCEPT
             !.elements = update_elements_when_deleting_a_rule(ci.rules)]
    ELSE IF Head(rulenames) \notin names(ci.rules)
    THEN [ci EXCEPT !.raised = "RuntimeError"]
    ELSE remove_rules([ci EXCEPT !.rules[Head(rulenames)] = NoRule],
                      Tail(rulenames))

\* numpy.inf and -numpy.inf among the results
Infinity == MaxValue + 1

\* variant: a later row with the same result replaces the best one
RECURSIVE best_row_last(_, _, _, _, _)
best_row_last(lines, jdx, jdx_best, result_best, maximisation) ==
    IF jdx + 2 >= Len(lines) THEN [jdx |-> jdx_best, result |-> result_best]
    ELSE LET result == Head(lines[jdx + 3])
         IN  IF \/ maximisation /\ result >= result_best
                \/ ~maximisation /\ result <= result_best
             THEN best_row_last(lines, jdx + 1, jdx, result, maximisation)
             ELSE best_row_last(lines, jdx + 1, jdx_best, result_best,
                                maximisation)

\* the loop of read_logfile over lines[2:], from row jdx (counted from 0) on
RECURSIVE best_row(_, _, _, _, _)
best_row(lines, jdx, jdx_best, result_best, maximisation) ==
    IF jdx + 2 >= Len(lines) THEN [jdx |-> jdx_best, result |-> result_best]
    ELSE LET result == Head(lines[jdx + 3])
         IN  IF \/ maximisation /\ result > result_best
                \/ ~maximisation /\ result < result_best
             THEN best_row(lines, jdx + 1, jdx, result, maximisation)
             ELSE best_row(lines, jdx + 1, jdx_best, result_best,
                           maximisation)

\* idx2name of read_logfile (columns counted from 1): zip of the names of
\* the first and the parameter steps of the second line
idx2name(lines) ==
    [idx \in 1..Min(Len(lines[1]), Len(lines[2])) - 1 |-> lines[1][idx + 1]]

\* the columns that go into idx2rule
idx2rule(rules, lines) ==
    {idx \in DOMAIN idx2name(lines) : idx2name(lines)[idx] \in names(rules)}

\* state of the interface after read_logfile for the split lines of the
\* file that are neither empty nor comments
read_logfile(ci, lines, maximisation, check) ==
    LET header == idx2name(lines)
        handled == idx2rule(ci.rules, lines)
        best == best_row(lines, 0, 0,
                         IF maximisation THEN 0 - Infinity ELSE Infinity,
                         maximisation)
        row == Tail(lines[best.jdx + 3])
        \* the last column of a name is the last one assigned
        Column(n) == CHOOSE idx \in handled :
                         /\ header[idx] = n
                         /\ \A k \in handled : header[k] = n => k <= idx
    IN  IF \E idx \in handled :
               lines[2][idx + 1] # ci.rules[header[idx]].parameterstep
        THEN [ci EXCEPT !.raised = "RuntimeError"]
        ELSE IF check /\ names(ci.rules) # {header[idx] : idx \in DOMAIN header}
        THEN [ci EXCEPT !.raised = "RuntimeError"]
        ELSE IF Len(lines) < 3
        THEN [ci EXCEPT !.raised = "IndexError"]
        ELSE [ci EXCEPT
                 !.rules = [n \in RuleNames |->
                     IF \E idx \in handled : header[idx] = n /\ idx <= Len(row)
                     THEN [ci.rules[n] EXCEPT
                              !.value = value_setter(ci.rules[n].lower,
                                                     ci.rules[n].upper,
                                                     row[Column(n)])]
                     ELSE ci.rules[n]],
                 !.result = best.result]

\* the log files: a header line, the line of the parameter steps and the
\* rows, each with its result first; the value of a column depends on the
\* row and the column
LogHeaders ==
    { <<<<"result", "fc">>, <<"parameterstep", "1d">>>>,
      <<<<"result", "fc", "damp">>, <<"parameterstep", "1d", "1d">>>>,
      <<<<"result", "damp", "fc">>, <<"parameterstep", "1d", "1d">>>>,
      <<<<"result", "fc", "damp">>, <<"parameterstep", "12h", "1d">>>> }

LogRow(jdx, result, width) ==
    <<result>> \o [idx \in 1..width |-> (jdx + idx + result) % (MaxValue + 1)]

LogRows(width) ==
    UNION {{[jdx \in 1..n |-> LogRow(jdx, results[jdx], width)] :
                results \in [1..n -> {0, MaxValue}]} : n \in 0..MaxRows}

Logfiles ==
    UNION {{header \o rows : rows \in LogRows(Len(header[1]) - 1)} :
               header \in LogHeaders}

\* CalibrationInterface.__init__; did, logfile, maximisation, check and
\* before record the last call and the rules before it
NewInterface ==
    [ kind |-> "ci", rules |-> [n \in RuleNames |-> NoRule],
      elements |-> {}, result |-> "None", raised |-> "none",
      did |-> "init", logfile |-> <<>>, maximisation |-> FALSE,
      check |-> FALSE, before |-> [n \in RuleNames |-> NoRule] ]

InterfaceCall(new, did) ==
    /\ mem.kind = "ci"
    /\ mem' = [new EXCEPT !.did = did]
    /\ UNCHANGED <<routine, model, fastcython, nogilAtImport, usecython,
                   skipdoctests, argv, clock, pyTime, pyx, dll, build, pc,
                   log, exc, calls, last, touched, lock, locking, written,
                   out>>

\* what is left of the previous call when the next one starts
Called == [mem EXCEPT !.raised = "none", !.logfile = <<>>,
                      !.maximisation = FALSE, !.check = FALSE,
                      !.before = mem.rules]

\* ci.add_rules(*rules)
AddRules(rules) ==
    InterfaceCall(add_rules(Called, rules), "add_rules")

\* ci.remove_rules(*rulenames)
RemoveRules(rulenames) ==
    InterfaceCall(remove_rules(Called, rulenames), "remove_rules")

\* ci.read_logfile(logfilepath, maximisation, check); a read that follows
\* a read starts from rules that a read after another call starts from too
\* and is left out
ReadLogfile(lines, maximisation, check) ==
    /\ names(mem.rules) # {}
    /\ mem.did # "read_logfile"
    /\ InterfaceCall(read_logfile([Called EXCEPT !.logfile = lines,
                                                 !.maximisation = maximisation,
                                                 !.check = check],
                                  lines, maximisation, check),
                     "read_logfile")

InitInterface ==
    /\ Start
    /\ routine = NoRoutine
    /\ model = Descriptor({"fluxes"}, <<0>>, FALSE)
    /\ fastcython = FALSE
    /\ nogilAtImport = FALSE
    /\ skipdoctests = TRUE
    /\ locking = FALSE
    /\ pyTime = [f \in SourceFiles |-> 0]
    /\ NeverBuilt
    /\ mem = NewInterface

NextInterface ==
    \/ \E rules \in SeqsUpTo(RuleObjects, 2) \ {<<>>} : AddRules(rules)
    \/ \E rulenames \in SeqsUpTo(RemovedNames, 2) \ {<<>>} :
           RemoveRules(rulenames)
    \/ \E lines \in Logfiles, maximisation \in BOOLEAN, check \in BOOLEAN :
           ReadLogfile(lines, maximisation, check)

\* a calibration interface and the rules it handles
SpecInterface == InitInterface /\ [][NextInterface]_vars

(***************************************************************************)
(* Claims on CalibrationInterface                                          *)
(***************************************************************************)
\* the rows of the log file that was read and their results
Rows == [jdx \in 1..Len(mem.logfile) - 2 |-> mem.logfile[jdx + 2]]

Better(a, b) == IF mem.maximisation THEN a > b ELSE a < b

\* the first of the rows none of which has a better result
Selected ==
    CHOOSE jdx \in DOMAIN Rows :
        /\ \A k \in DOMAIN Rows : ~Better(Rows[k][1], Rows[jdx][1])
        /\ \A k \in 1..jdx - 1 : Better(Rows[jdx][1], Rows[k][1])

\* the columns of the header of the log file that was read
Named == {mem.logfile[1][idx] : idx \in 2..Len(mem.logfile[1])}

\* C26: after read_logfile has returned, each handled rule named in the
\* header has the value of its column in the row with the greatest result
\* (maximisation) or the smallest result (otherwise), the first of these
\* rows on ties, assigned through the setter of Rule.value; result is the
\* result of that row; with check=False a handled rule that the header
\* does not name has the value it had before
C26_BestRowRead ==
    (mem.kind = "ci" /\ mem.did = "read_logfile" /\ mem.raised = "none")
    => /\ mem.result = Rows[Selected][1]
       /\ \A idx \in 2..Len(mem.logfile[1]) :
              LET n == mem.logfile[1][idx]
              IN  n \in names(mem.rules)
                  => mem.rules[n].value
                         = value_setter(mem.rules[n].lower,
                                        mem.rules[n].upper,
                                        Rows[Selected][idx])
       /\ \A n \in names(mem.rules) \ Named :
              ~mem.check /\ mem.rules[n] = mem.before[n]

\* a maximisation with two rows of the same best result: the values of the
\* first row are read, rule damp is not named and keeps its value
C26_Witness ==
    /\ mem.kind = "ci"
    /\ mem.did = "read_logfile"
    /\ mem.raised = "none"
    /\ mem.maximisation /\ ~mem.check
    /\ Len(mem.logfile) = 4
    /\ mem.logfile[3][1] = mem.logfile[4][1]
    /\ mem.logfile[3][2] # mem.logfile[4][2]
    /\ Named = {"fc"}
    /\ names(mem.rules) = {"fc", "damp"}
    /\ mem.rules["fc"].value = mem.logfile[3][2]
    /\ mem.rules["fc"].value # mem.before["fc"].value
    /\ mem.rules["damp"] = mem.before["damp"]

\* C27: the elements of the interface are the union of the elements of
\* the rules it handles, after every sequence of add_rules and
\* remove_rules calls, those that replace a handled rule of the same name
\* and those that end with a RuntimeError included
C27_ElementsOfHandledRules ==
    mem.kind = "ci"
    => mem.elements = UNION {mem.rules[n].elements : n \in names(mem.rules)}

====
